---- MODULE Spec2Model ----
(***************************************************************************)
(* Model of dv_transaction_trace.impl.perfetto_impl: PerfettoTrace,        *)
(* PerfettoStream and PerfettoTransaction, with the packet log each trace  *)
(* writes to its output file.                                              *)
(*                                                                         *)
(* Objects live in two arenas (streams, txns) in creation order; an object *)
(* reference is its index in the arena.  A parent reference of 0 is        *)
(* Python's None, Foreign is an object that is not a PerfettoTransaction.  *)
(* Every method is an operator from a world (the three arenas and a flag   *)
(* telling whether an exception is propagating) to the world after it.     *)
(***************************************************************************)
EXTENDS Integers, Sequences, FiniteSets, TLC

VARIABLES traces, streams, txns, writer, legacy, last, calls

vars == <<traces, streams, txns, writer, legacy, last, calls>>

\* ---- bounds of the model ------------------------------------------------
\* A program is a sequence of at most MaxCalls calls on one trace (Spec), or
\* of at most MaxCallsMulti calls on the entities of two traces (SpecMulti),
\* or of at most MaxCallsAttrs calls on the root transactions of one stream,
\* with two kinds of attribute (SpecAttrs), or of at most MaxCallsFaulty
\* calls on one trace whose device may run out of room (SpecFaulty), or of at
\* most MaxCallsCodec calls on a ProtobufWriter (SpecCodec), or of at most
\* MaxCallsBits calls that give one transaction an attribute of any kind
\* (SpecBits), or of at most MaxCallsBoth calls made on a PerfettoTrace and on
\* a legacy Trace side by side (SpecBoth).
MaxCalls == 6
MaxCallsMulti == 5
MaxCallsAttrs == 7
MaxCallsFaulty == 5
MaxCallsCodec == 2
MaxCallsBits == 3
MaxCallsBoth == 5

Traces == {1, 2}
Times == {0, 1}
Foreign == -1
StreamNames == {"bus"}
TxnNames == {"RD"}
TypeNames == {""}
AttrNames == {"addr"}
AttrValues == {16}
StringAttrNames == {"status"}
StringAttrValues == {"OK"}
ScenarioTimes == {100, 200}
IntValues == {-42}
FloatValues == {"3.3"}
BitsInputs == {<<>>, <<0>>, <<165>>, <<1, 128>>, <<171, 205>>}
NumBitsInputs == {0, 1, 8, 9, 12, 16, 17}
DeviceStates == {"room1", "room1_torn", "full", "full_torn"}

\* ---- api.Radix ----------------------------------------------------------
RadixBIN == 0
RadixOCT == 1
RadixDEC == 2
RadixHEX == 3
RadixUNSIGNED == 4
RadixSTRING == 5
RadixTIME == 6
RadixREAL == 7
Radix == {RadixBIN, RadixOCT, RadixDEC, RadixHEX, RadixUNSIGNED, RadixSTRING,
          RadixTIME, RadixREAL}

\* ---- worlds -------------------------------------------------------------
World == [traces |-> traces, streams |-> streams, txns |-> txns, raised |-> FALSE]

Raise(W) == [W EXCEPT !.raised = TRUE]

\* PerfettoTrace._allocate_track_uuid: the value returned is the counter
\* before the call (NextTrackUuid), the world after it has the counter + 1.
NextTrackUuid(W, t) == W.traces[t].next_track_uuid

AllocateTrackUuid(W, t) ==
    [W EXCEPT !.traces[t].next_track_uuid = @ + 1]

NextTransactionId(W, t) == W.traces[t].next_transaction_id

\* AllocateTransactionId that leaves the counter where it is.
AllocateTransactionId_NoAdvance(W, t) == W

AllocateTransactionId(W, t) ==
    [W EXCEPT !.traces[t].next_transaction_id = @ + 1]

NextFlowId(W, t) == W.traces[t].next_flow_id

AllocateFlowId(W, t) ==
    [W EXCEPT !.traces[t].next_flow_id = @ + 1]

\* WritePacket that puts the packet in front of what was written before.
WritePacket_Prepend(W, t, packet) ==
    IF W.raised THEN W
    ELSE IF W.traces[t].file = "none" THEN Raise(W)
    ELSE [W EXCEPT !.traces[t].out = <<packet>> \o @]

\* PerfettoTrace._write_packet: one length-delimited packet appended to the
\* file; self._file is None after close, and None.write raises.  The three
\* calls _write_varint, self._file.write(data) and self._file.flush() raise
\* OSError when the device takes no more bytes: in file state "full" the first
\* of them raises, in state "full_torn" the length prefix still gets out and
\* the write of the body raises, leaving a packet of kind "torn" that names
\* the packet cut short.  "room1" and "room1_torn" take one more packet.
WritePacket(W, t, packet) ==
    IF W.raised THEN W
    ELSE IF W.traces[t].file = "none" THEN Raise(W)
    ELSE IF W.traces[t].file = "full" THEN Raise(W)
    ELSE IF W.traces[t].file = "full_torn"
    THEN Raise([W EXCEPT !.traces[t].out =
                   Append(@, [kind |-> "torn", of |-> packet.kind])])
    ELSE IF W.traces[t].file = "room1"
    THEN [W EXCEPT !.traces[t].out = Append(@, packet), !.traces[t].file = "full"]
    ELSE IF W.traces[t].file = "room1_torn"
    THEN [W EXCEPT !.traces[t].out = Append(@, packet),
                   !.traces[t].file = "full_torn"]
    ELSE [W EXCEPT !.traces[t].out = Append(@, packet)]

EmitClockSnapshot(W, t) ==
    WritePacket(W, t,
        [kind |-> "clock_snapshot", timestamp |-> 0,
         clocks |-> <<[clock_id |-> W.traces[t].clock_id, timestamp |-> 0]>>])

\* parent_uuid 0 is the unset field.
EmitTrackDescriptor(W, stream) ==
    WritePacket(W, stream.trace,
        [kind |-> "track_descriptor", timestamp |-> 0,
         uuid |-> stream.track_uuid, name |-> stream.name, parent_uuid |-> 0])

\* EmitChildTrackDescriptor that takes the uuid from the stream, as
\* _emit_track_descriptor does.
EmitChildTrackDescriptor_StreamUuid(W, txn) ==
    WritePacket(W, W.streams[txn.stream].trace,
        [kind |-> "track_descriptor", timestamp |-> 0,
         uuid |-> W.streams[txn.stream].track_uuid, name |-> txn.name,
         parent_uuid |-> IF txn.parent # 0
                         THEN W.txns[txn.parent].track_uuid ELSE 0])

\* EmitChildTrackDescriptor that names the stream's track as the parent track.
EmitChildTrackDescriptor_StreamParent(W, txn) ==
    WritePacket(W, W.streams[txn.stream].trace,
        [kind |-> "track_descriptor", timestamp |-> 0,
         uuid |-> txn.track_uuid, name |-> txn.name,
         parent_uuid |-> IF txn.parent # 0
                         THEN W.streams[txn.stream].track_uuid ELSE 0])

EmitChildTrackDescriptor(W, txn) ==
    WritePacket(W, W.streams[txn.stream].trace,
        [kind |-> "track_descriptor", timestamp |-> 0,
         uuid |-> txn.track_uuid, name |-> txn.name,
         parent_uuid |-> IF txn.parent # 0
                         THEN W.txns[txn.parent].track_uuid ELSE 0])

\* EmitSliceBegin that writes the attributes last added first.
EmitSliceBegin_Reversed(W, x) ==
    LET txn == W.txns[x]
        n == Len(txn.attributes)
    IN WritePacket(W, W.streams[txn.stream].trace,
        [kind |-> "slice_begin", timestamp |-> txn.start_time,
         track_uuid |-> txn.track_uuid, name |-> txn.name,
         categories |-> IF txn.type_name # "" THEN <<txn.type_name>> ELSE <<>>,
         debug_annotations |-> [i \in 1..n |-> txn.attributes[n + 1 - i]],
         flow_ids |-> txn.flow_ids])

EmitSliceBegin(W, x) ==
    LET txn == W.txns[x] IN
    WritePacket(W, W.streams[txn.stream].trace,
        [kind |-> "slice_begin", timestamp |-> txn.start_time,
         track_uuid |-> txn.track_uuid, name |-> txn.name,
         categories |-> IF txn.type_name # "" THEN <<txn.type_name>> ELSE <<>>,
         debug_annotations |-> txn.attributes,
         flow_ids |-> txn.flow_ids])

\* EmitSliceEnd with the timestamp of the begin event.
EmitSliceEnd_AtStart(W, x) ==
    LET txn == W.txns[x] IN
    WritePacket(W, W.streams[txn.stream].trace,
        [kind |-> "slice_end", timestamp |-> txn.start_time,
         track_uuid |-> txn.track_uuid,
         flow_ids |-> txn.flow_ids])

EmitSliceEnd(W, x) ==
    LET txn == W.txns[x] IN
    WritePacket(W, W.streams[txn.stream].trace,
        [kind |-> "slice_end", timestamp |-> txn.end_time,
         track_uuid |-> txn.track_uuid,
         flow_ids |-> txn.flow_ids])

\* ---- PerfettoTransaction ------------------------------------------------
TransactionIsOpen(W, x) == W.txns[x].is_open

TransactionIsClosed(W, x) == ~W.txns[x].is_open /\ W.txns[x].end_time > 0

\* TransactionClose without the early return of a closed transaction.
TransactionClose_NoGuard(W, x, end_time) ==
    IF W.raised THEN W
    ELSE LET W1 == [W EXCEPT !.txns[x].end_time = end_time,
                             !.txns[x].is_open = FALSE]
         IN EmitSliceEnd(EmitSliceBegin(W1, x), x)

\* TransactionClose that puts the slices of every transaction on the track of
\* its stream, and records that track in the transaction.
TransactionClose_OnStreamTrack(W, x, end_time) ==
    IF W.raised \/ ~W.txns[x].is_open THEN W
    ELSE LET W1 == [W EXCEPT !.txns[x].end_time = end_time,
                             !.txns[x].is_open = FALSE,
                             !.txns[x].track_uuid = W.streams[W.txns[x].stream].track_uuid]
         IN EmitSliceEnd(EmitSliceBegin(W1, x), x)

TransactionClose(W, x, end_time) ==
    IF W.raised \/ ~W.txns[x].is_open THEN W
    ELSE LET W1 == [W EXCEPT !.txns[x].end_time = end_time,
                             !.txns[x].is_open = FALSE]
         IN EmitSliceEnd(EmitSliceBegin(W1, x), x)

\* FormatName that leaves the radix suffix out.
FormatName_NoSuffix(name, radix) == name

\* FormatName that gives the REAL radix a suffix of its own.
FormatName_RealSuffix(name, radix) ==
    name \o (CASE radix = RadixBIN -> "[bin]"
               [] radix = RadixOCT -> "[oct]"
               [] radix = RadixDEC -> "[dec]"
               [] radix = RadixHEX -> "[hex]"
               [] radix = RadixUNSIGNED -> "[u]"
               [] radix = RadixTIME -> "[time]"
               [] radix = RadixREAL -> "[real]"
               [] OTHER -> "")

\* name + radix_suffixes.get(radix, "")
FormatName(name, radix) ==
    name \o (CASE radix = RadixBIN -> "[bin]"
               [] radix = RadixOCT -> "[oct]"
               [] radix = RadixDEC -> "[dec]"
               [] radix = RadixHEX -> "[hex]"
               [] radix = RadixUNSIGNED -> "[u]"
               [] radix = RadixTIME -> "[time]"
               [] OTHER -> "")

\* AddUint that writes the slice pair of a closed transaction again, with the
\* new attribute.
AddUint_ReEmits(W, x, name, value, radix) ==
    LET W1 == [W EXCEPT !.txns[x].attributes =
                  Append(@, [name |-> FormatName(name, radix), kind |-> "uint_value",
                             value |-> value])]
    IN IF W.txns[x].is_open THEN W1 ELSE EmitSliceEnd(EmitSliceBegin(W1, x), x)

\* add_uint: appended whether or not the transaction is still open.
AddUint(W, x, name, value, radix) ==
    [W EXCEPT !.txns[x].attributes =
        Append(@, [name |-> FormatName(name, radix), kind |-> "uint_value",
                   value |-> value])]

\* add_string: the name is taken as it is.
AddString(W, x, name, value) ==
    [W EXCEPT !.txns[x].attributes =
        Append(@, [name |-> name, kind |-> "string_value", value |-> value])]

\* ---- strings rendered character by character ----------------------------
\* A string the code builds digit by digit is the sequence of its characters.
HexDigit(n) ==
    <<"0", "1", "2", "3", "4", "5", "6", "7", "8", "9", "a", "b", "c", "d", "e", "f">>[n + 1]

\* bytes.hex(): two lowercase digits for each byte, in storage order.
RECURSIVE Hex(_)
Hex(data) ==
    IF data = <<>> THEN <<>>
    ELSE <<HexDigit(Head(data) \div 16), HexDigit(Head(data) % 16)>> \o Hex(Tail(data))

\* format(byte, '08b')
Bin8(byte) ==
    <<HexDigit((byte \div 128) % 2), HexDigit((byte \div 64) % 2),
      HexDigit((byte \div 32) % 2), HexDigit((byte \div 16) % 2),
      HexDigit((byte \div 8) % 2), HexDigit((byte \div 4) % 2),
      HexDigit((byte \div 2) % 2), HexDigit(byte % 2)>>

\* for byte in reversed(bits): result += format(byte, '08b'), from byte i down.
RECURSIVE BinReversedFrom(_, _)
BinReversedFrom(bits, i) ==
    IF i = 0 THEN <<>> ELSE Bin8(bits[i]) \o BinReversedFrom(bits, i - 1)

\* result[:n]
Take(result, n) == SubSeq(result, 1, IF n < Len(result) THEN n ELSE Len(result))

\* int.from_bytes(bits, 'little')
RECURSIVE FromBytesLittle(_)
FromBytesLittle(bits) ==
    IF bits = <<>> THEN 0 ELSE Head(bits) + 256 * FromBytesLittle(Tail(bits))

\* oct(value)[2:]
RECURSIVE OctDigits(_)
OctDigits(value) ==
    IF value < 8 THEN <<HexDigit(value)>>
    ELSE OctDigits(value \div 8) \o <<HexDigit(value % 8)>>

\* BitsToString that takes the bytes in storage order for BIN too.
BitsToString_StorageOrder(bits, num_bits, radix) ==
    IF radix = RadixHEX THEN <<"0", "x">> \o Hex(bits)
    ELSE IF radix = RadixBIN
    THEN Take(<<"0", "b">> \o
              BinReversedFrom([i \in 1..Len(bits) |-> bits[Len(bits) + 1 - i]],
                              Len(bits)),
              2 + num_bits)
    ELSE IF radix = RadixOCT THEN <<"0", "o">> \o OctDigits(FromBytesLittle(bits))
    ELSE <<"0", "x">> \o Hex(bits)

\* PerfettoTransaction._bits_to_string
BitsToString(bits, num_bits, radix) ==
    IF radix = RadixHEX THEN <<"0", "x">> \o Hex(bits)
    ELSE IF radix = RadixBIN
    THEN Take(<<"0", "b">> \o BinReversedFrom(bits, Len(bits)), 2 + num_bits)
    ELSE IF radix = RadixOCT THEN <<"0", "o">> \o OctDigits(FromBytesLittle(bits))
    ELSE <<"0", "x">> \o Hex(bits)

\* add_int, add_float, add_time, add_bits, add_blob: like add_uint and
\* add_string they append and look at nothing else.
AddInt(W, x, name, value, radix) ==
    [W EXCEPT !.txns[x].attributes =
        Append(@, [name |-> FormatName(name, radix), kind |-> "int_value",
                   value |-> value])]

AddFloat(W, x, name, value) ==
    [W EXCEPT !.txns[x].attributes =
        Append(@, [name |-> name, kind |-> "double_value", value |-> value])]

AddTime(W, x, name, value) == AddUint(W, x, name, value, RadixTIME)

AddBits(W, x, name, bits, num_bits, radix) ==
    [W EXCEPT !.txns[x].attributes =
        Append(@, [name |-> FormatName(name, radix), kind |-> "string_value",
                   value |-> BitsToString(bits, num_bits, radix)])]

AddBlob(W, x, name, data) ==
    [W EXCEPT !.txns[x].attributes =
        Append(@, [name |-> name, kind |-> "string_value", value |-> Hex(data)])]

\* AddLink that takes one flow id for the source and another for the target.
AddLink_TwoIds(W, x, target) ==
    IF target = Foreign THEN Raise(W)
    ELSE LET t == W.streams[W.txns[x].stream].trace
             flow_id == NextFlowId(W, t)
             W1 == AllocateFlowId(AllocateFlowId(W, t), t)
             W2 == [W1 EXCEPT !.txns[x].flow_ids = Append(@, flow_id)]
         IN [W2 EXCEPT !.txns[target].flow_ids = Append(@, flow_id + 1)]

\* add_link: the flow id comes from the counter of the source's trace.
AddLink(W, x, target) ==
    IF target = Foreign THEN Raise(W)
    ELSE LET t == W.streams[W.txns[x].stream].trace
             flow_id == NextFlowId(W, t)
             W1 == AllocateFlowId(W, t)
             W2 == [W1 EXCEPT !.txns[x].flow_ids = Append(@, flow_id)]
         IN [W2 EXCEPT !.txns[target].flow_ids = Append(@, flow_id)]

\* TransactionInit that gives every transaction, root or child, its own track.
TransactionInit_AlwaysTrack(W, txn_id, s, name, start_time, type_name, parent) ==
    LET t == W.streams[s].trace
        txn == [id |-> txn_id, stream |-> s, name |-> name,
                type_name |-> type_name, start_time |-> start_time,
                end_time |-> 0, is_open |-> TRUE, parent |-> parent,
                attributes |-> <<>>, flow_ids |-> <<>>,
                track_uuid |-> NextTrackUuid(W, t)]
    IN <<EmitChildTrackDescriptor(AllocateTrackUuid(W, t), txn), txn>>

\* PerfettoTransaction.__init__, for a transaction with id txn_id on stream s.
\* The result is <<the world after, the new object>>.
TransactionInit(W, txn_id, s, name, start_time, type_name, parent) ==
    LET t == W.streams[s].trace
        base == [id |-> txn_id, stream |-> s, name |-> name,
                 type_name |-> type_name, start_time |-> start_time,
                 end_time |-> 0, is_open |-> TRUE, parent |-> parent,
                 attributes |-> <<>>, flow_ids |-> <<>>,
                 track_uuid |-> W.streams[s].track_uuid]
    IN IF parent # 0
       THEN LET txn == [base EXCEPT !.track_uuid = NextTrackUuid(W, t)]
            IN <<EmitChildTrackDescriptor(AllocateTrackUuid(W, t), txn), txn>>
       ELSE <<W, base>>

\* ---- PerfettoStream -----------------------------------------------------
StreamIsOpen(W, s) == W.streams[s].is_open

StreamIsClosed(W, s) == ~W.streams[s].is_open

\* for txn in self._transactions: if txn.is_open(): txn.close(txn.start_time)
RECURSIVE CloseTransactionsFrom(_, _, _)
CloseTransactionsFrom(W, s, i) ==
    IF W.raised \/ i > Len(W.streams[s].transactions) THEN W
    ELSE LET x == W.streams[s].transactions[i]
         IN CloseTransactionsFrom(
                IF TransactionIsOpen(W, x)
                THEN TransactionClose(W, x, W.txns[x].start_time) ELSE W,
                s, i + 1)

\* StreamClose that closes the open transactions last created first.
StreamClose_LastFirst(W, s) ==
    IF W.raised \/ ~W.streams[s].is_open THEN W
    ELSE LET own == W.streams[s].transactions
             n == Len(own)
             W0 == [W EXCEPT !.streams[s].transactions = [i \in 1..n |-> own[n + 1 - i]]]
             W1 == CloseTransactionsFrom(W0, s, 1)
         IN IF W1.raised THEN W1
            ELSE [W1 EXCEPT !.streams[s].is_open = FALSE,
                            !.streams[s].transactions = own]

\* StreamClose that marks the stream closed and forgets its transactions.
StreamClose_NoCascade(W, s) ==
    IF W.raised \/ ~W.streams[s].is_open THEN W
    ELSE [W EXCEPT !.streams[s].is_open = FALSE]

\* StreamClose that treats a second close as an error, as begin_transaction
\* treats a closed stream.
StreamClose_RaisesWhenClosed(W, s) ==
    IF W.raised THEN W
    ELSE IF ~W.streams[s].is_open THEN Raise(W)
    ELSE LET W1 == CloseTransactionsFrom(W, s, 1)
         IN IF W1.raised THEN W1 ELSE [W1 EXCEPT !.streams[s].is_open = FALSE]

StreamClose(W, s) ==
    IF W.raised \/ ~W.streams[s].is_open THEN W
    ELSE LET W1 == CloseTransactionsFrom(W, s, 1)
         IN IF W1.raised THEN W1 ELSE [W1 EXCEPT !.streams[s].is_open = FALSE]

\* BeginTransaction that takes the transaction id before it looks at the state
\* of the stream.
BeginTransaction_AllocatesFirst(W, s, name, start_time, type_name, parent) ==
    LET t == W.streams[s].trace
        txn_id == NextTransactionId(W, t)
        W1 == AllocateTransactionId(W, t)
    IN IF ~W.streams[s].is_open \/ parent = Foreign THEN Raise(W1)
       ELSE LET r == TransactionInit(W1, txn_id, s, name, start_time, type_name, parent)
                W2 == r[1]
                x == Len(W2.txns) + 1
            IN IF W2.raised THEN W2
               ELSE [W2 EXCEPT !.txns = Append(@, r[2]),
                               !.streams[s].transactions = Append(@, x)]

\* BeginTransaction without the test of the stream's state.
BeginTransaction_NoClosedCheck(W, s, name, start_time, type_name, parent) ==
    LET t == W.streams[s].trace
        txn_id == NextTransactionId(W, t)
        W1 == AllocateTransactionId(W, t)
    IN IF parent = Foreign THEN Raise(W1)
       ELSE LET r == TransactionInit(W1, txn_id, s, name, start_time, type_name, parent)
                W2 == r[1]
                x == Len(W2.txns) + 1
            IN IF W2.raised THEN W2
               ELSE [W2 EXCEPT !.txns = Append(@, r[2]),
                               !.streams[s].transactions = Append(@, x)]

BeginTransaction(W, s, name, start_time, type_name, parent) ==
    IF ~W.streams[s].is_open THEN Raise(W)
    ELSE LET t == W.streams[s].trace
             txn_id == NextTransactionId(W, t)
             W1 == AllocateTransactionId(W, t)
         IN IF parent = Foreign THEN Raise(W1)
            ELSE LET r == TransactionInit(W1, txn_id, s, name, start_time,
                                          type_name, parent)
                     W2 == r[1]
                     x == Len(W2.txns) + 1
                 IN IF W2.raised THEN W2
                    ELSE [W2 EXCEPT !.txns = Append(@, r[2]),
                                    !.streams[s].transactions = Append(@, x)]

\* PerfettoStream.__init__ with the track uuid create_stream allocated.
StreamInit(W, t, track_uuid, name) ==
    LET stream == [trace |-> t, track_uuid |-> track_uuid, name |-> name,
                   is_open |-> TRUE, transactions |-> <<>>]
    IN <<EmitTrackDescriptor(W, stream), stream>>

\* ---- PerfettoTrace ------------------------------------------------------
CreateStream(W, t, name) ==
    LET track_uuid == NextTrackUuid(W, t)
        r == StreamInit(AllocateTrackUuid(W, t), t, track_uuid, name)
        W1 == r[1]
        s == Len(W1.streams) + 1
    IN IF W1.raised THEN W1
       ELSE [W1 EXCEPT !.streams = Append(@, r[2]),
                       !.traces[t].streams = Append(@, s)]

\* for stream in self._streams: if stream.is_open(): stream.close()
RECURSIVE CloseStreamsFrom(_, _, _)
CloseStreamsFrom(W, t, i) ==
    IF W.raised \/ i > Len(W.traces[t].streams) THEN W
    ELSE LET s == W.traces[t].streams[i]
         IN CloseStreamsFrom(IF StreamIsOpen(W, s) THEN StreamClose(W, s) ELSE W,
                             t, i + 1)

\* TraceClose that releases the file and leaves the open streams alone.
TraceClose_NoCascade(W, t) ==
    IF W.traces[t].file # "none"
    THEN [W EXCEPT !.traces[t].file = "none", !.traces[t].releases = @ + 1]
    ELSE W

\* TraceClose without the test of self._file.
TraceClose_NoFileCheck(W, t) ==
    LET W1 == CloseStreamsFrom(W, t, 1)
    IN IF W1.raised THEN W1
       ELSE [W1 EXCEPT !.traces[t].file = "none", !.traces[t].releases = @ + 1]

\* releases counts the calls of self._file.close().
TraceClose(W, t) ==
    LET W1 == CloseStreamsFrom(W, t, 1)
    IN IF W1.raised THEN W1
       ELSE IF W1.traces[t].file # "none"
       THEN [W1 EXCEPT !.traces[t].file = "none", !.traces[t].releases = @ + 1]
       ELSE W1

\* TraceInit with the stub _emit_clock_snapshot of the legacy Trace.
TraceInit_NoSnapshot(t) ==
    [file |-> "open", streams |-> <<>>, next_track_uuid |-> 1,
     next_transaction_id |-> 1, next_flow_id |-> 1,
     sequence_id |-> 1, clock_id |-> 64, out |-> <<>>, releases |-> 0]

\* PerfettoTrace.__init__
TraceInit(t) ==
    LET W0 == [traces |-> [u \in {t} |->
                   [file |-> "open", streams |-> <<>>, next_track_uuid |-> 1,
                    next_transaction_id |-> 1, next_flow_id |-> 1,
                    sequence_id |-> 1, clock_id |-> 64, out |-> <<>>,
                    releases |-> 0]],
               streams |-> <<>>, txns |-> <<>>, raised |-> FALSE]
    IN EmitClockSnapshot(W0, t).traces[t]

\* ---- Python integers ----------------------------------------------------
\* A Python int is held in two's complement: bits[i] is the bit of weight
\* 2^(i-1) for the places 1..70 (ten groups of seven), and every bit above
\* place 70 equals the sign, 1 when neg.  The values of the i64 and u64 ranges
\* and their doubles fit.
Places == 1..70

Bit(v, i) == IF i \in Places THEN v.bits[i] ELSE IF v.neg THEN 1 ELSE 0

\* The int of a small natural number.
FromNat(n) ==
    [neg |-> FALSE,
     bits |-> [i \in Places |-> IF i <= 16 THEN (n \div (2 ^ (i - 1))) % 2 ELSE 0]]

\* 2^e, 2^k - 1, -(2^e) and -(2^e) - 1
Pow(e) == [neg |-> FALSE, bits |-> [i \in Places |-> IF i = e + 1 THEN 1 ELSE 0]]

Ones(k) == [neg |-> FALSE, bits |-> [i \in Places |-> IF i <= k THEN 1 ELSE 0]]

NegPow(e) == [neg |-> TRUE, bits |-> [i \in Places |-> IF i > e THEN 1 ELSE 0]]

NotPow(e) == [neg |-> TRUE, bits |-> [i \in Places |-> IF i = e + 1 THEN 0 ELSE 1]]

\* v >> k, v << 1, a ^ b
ShiftRight(v, k) == [neg |-> v.neg, bits |-> [i \in Places |-> Bit(v, i + k)]]

ShiftLeft1(v) ==
    [neg |-> v.neg, bits |-> [i \in Places |-> IF i = 1 THEN 0 ELSE v.bits[i - 1]]]

Xor(a, b) ==
    [neg |-> a.neg # b.neg,
     bits |-> [i \in Places |-> IF a.bits[i] = b.bits[i] THEN 0 ELSE 1]]

\* value >= 0x80
AtLeast128(v) == ~v.neg /\ \E i \in Places : i >= 8 /\ v.bits[i] = 1

\* value & 0x7F, as a byte
Low7(v) ==
    v.bits[1] + 2 * v.bits[2] + 4 * v.bits[3] + 8 * v.bits[4] + 16 * v.bits[5]
    + 32 * v.bits[6] + 64 * v.bits[7]

\* ---- ProtobufWriter -----------------------------------------------------
\* WriteVarint with an if in the place of the while: two bytes at most.
WriteVarint_IfNotWhile(output, value) ==
    IF AtLeast128(value)
    THEN Append(Append(output, Low7(value) + 128), Low7(ShiftRight(value, 7)))
    ELSE Append(output, Low7(value))

\* write_varint, on the byte sequence of the output.
RECURSIVE WriteVarint(_, _)
WriteVarint(output, value) ==
    IF AtLeast128(value)
    THEN WriteVarint(Append(output, Low7(value) + 128), ShiftRight(value, 7))
    ELSE Append(output, Low7(value))

\* write_tag: (field_number << 3) | wire_type
WriteTag(output, field_number, wire_type) ==
    WriteVarint(output, FromNat(field_number * 8 + wire_type))

\* write_uint64_field, with wire type VARINT = 0
WriteUint64Field(output, field_number, value) ==
    WriteVarint(WriteTag(output, field_number, 0), value)

\* ZigZag with the shift of the 32-bit transform.
ZigZag_Shift31(value) == Xor(ShiftLeft1(value), ShiftRight(value, 31))

\* (value << 1) ^ (value >> 63)
ZigZag(value) == Xor(ShiftLeft1(value), ShiftRight(value, 63))

WriteInt64Field(output, field_number, value) ==
    WriteUint64Field(output, field_number, ZigZag(value))

\* ---- the legacy functional model (impl/__init__.py) -----------------------
\* One legacy Trace with its Stream and Transaction objects, in arenas like the
\* Perfetto ones; raised tells whether the last call ended in an exception.
ObjectStateOPEN == 0
ObjectStateCLOSED == 1

\* Trace.__init__: the emit methods of the legacy Trace are stubs.
LegacyTraceInit ==
    [trace |-> [output_file |-> "open", streams |-> <<>>, sequence_id |-> 1,
                clock_id |-> 64, next_stream_handle |-> 1,
                next_transaction_handle |-> 1, next_track_uuid |-> 1,
                next_transaction_id |-> 1, next_flow_id |-> 1],
     streams |-> <<>>, txns |-> <<>>, raised |-> FALSE]

LegacyWorld == [legacy EXCEPT !.raised = FALSE]

LegacyTransactionIsOpen(L, x) == L.txns[x].state = ObjectStateOPEN

LegacyTransactionIsClosed(L, x) == L.txns[x].state = ObjectStateCLOSED

LegacyStreamIsOpen(L, s) == L.streams[s].state = ObjectStateOPEN

LegacyStreamIsClosed(L, s) == L.streams[s].state = ObjectStateCLOSED

\* open_stream
LegacyOpenStream(L, name) ==
    LET stream == [uuid |-> L.trace.next_track_uuid, name |-> name,
                   state |-> ObjectStateOPEN, handle |-> L.trace.next_stream_handle,
                   transactions |-> <<>>]
        s == Len(L.streams) + 1
    IN [L EXCEPT !.trace.next_track_uuid = @ + 1,
                 !.trace.next_stream_handle = @ + 1,
                 !.streams = Append(@, stream),
                 !.trace.streams = Append(@, s)]

\* open_transaction, without a parent
LegacyOpenTransaction(L, s, name, start_time, type_name) ==
    IF L.streams[s].state # ObjectStateOPEN THEN Raise(L)
    ELSE LET txn == [id |-> L.trace.next_transaction_id, stream |-> s, name |-> name,
                     type_name |-> type_name, start_time |-> start_time,
                     end_time |-> 0, state |-> ObjectStateOPEN,
                     handle |-> L.trace.next_transaction_handle,
                     attributes |-> <<>>, flow_ids |-> <<>>]
             x == Len(L.txns) + 1
         IN [L EXCEPT !.trace.next_transaction_id = @ + 1,
                      !.trace.next_transaction_handle = @ + 1,
                      !.txns = Append(@, txn),
                      !.streams[s].transactions = Append(@, x)]

\* close_transaction
LegacyCloseTransaction(L, x, end_time) ==
    IF L.txns[x].state = ObjectStateOPEN
    THEN [L EXCEPT !.txns[x].end_time = end_time,
                   !.txns[x].state = ObjectStateCLOSED]
    ELSE L

\* for txn in stream.transactions: if txn.is_open(): close_transaction(txn, txn.start_time)
RECURSIVE LegacyCloseTransactionsFrom(_, _, _)
LegacyCloseTransactionsFrom(L, s, i) ==
    IF i > Len(L.streams[s].transactions) THEN L
    ELSE LET x == L.streams[s].transactions[i]
         IN LegacyCloseTransactionsFrom(
                IF LegacyTransactionIsOpen(L, x)
                THEN LegacyCloseTransaction(L, x, L.txns[x].start_time) ELSE L,
                s, i + 1)

\* close_stream
LegacyCloseStream(L, s) ==
    [LegacyCloseTransactionsFrom(L, s, 1) EXCEPT !.streams[s].state = ObjectStateCLOSED]

\* for stream in trace.streams: if stream.is_open(): close_stream(stream)
RECURSIVE LegacyCloseStreamsFrom(_, _)
LegacyCloseStreamsFrom(L, i) ==
    IF i > Len(L.trace.streams) THEN L
    ELSE LET s == L.trace.streams[i]
         IN LegacyCloseStreamsFrom(
                IF LegacyStreamIsOpen(L, s) THEN LegacyCloseStream(L, s) ELSE L, i + 1)

\* close_trace, with Trace.close
LegacyCloseTrace(L) ==
    [LegacyCloseStreamsFrom(L, 1) EXCEPT !.trace.output_file = "none"]

\* add_link
LegacyAddLink(L, source, target) ==
    LET flow_id == L.trace.next_flow_id
        L1 == [L EXCEPT !.trace.next_flow_id = @ + 1]
        L2 == [L1 EXCEPT !.txns[source].flow_ids = Append(@, flow_id)]
    IN [L2 EXCEPT !.txns[target].flow_ids = Append(@, flow_id)]

\* ---- the calls a program makes ------------------------------------------
Init ==
    /\ traces = [t \in Traces |-> TraceInit(t)]
    /\ streams = <<>>
    /\ txns = <<>>
    /\ writer = [output |-> <<>>]
    /\ legacy = LegacyTraceInit
    /\ last = [op |-> "init", pre_open |-> TRUE, res |-> "ok"]
    /\ calls = 0

Result(W) == IF W.raised THEN "raised" ELSE "ok"

\* One call of the program: calls counts them, last tells which method it was,
\* whether its receiver was open when it was called and how it ended (and, for
\* a call on a ProtobufWriter, with which arguments).
Step(W, op, pre_open) ==
    /\ calls' = calls + 1
    /\ traces' = W.traces
    /\ streams' = W.streams
    /\ txns' = W.txns
    /\ last' = [op |-> op, pre_open |-> pre_open, res |-> Result(W)]
    /\ UNCHANGED <<writer, legacy>>

DoCreateStream(t, name) ==
    /\ Step(CreateStream(World, t, name), "create_stream", traces[t].file # "none")

DoBeginTransaction(s, name, start_time, type_name, parent) ==
    /\ s \in 1..Len(streams)
    /\ parent \in {0, Foreign} \cup (1..Len(txns))
    /\ Step(BeginTransaction(World, s, name, start_time, type_name, parent),
            "begin_transaction", streams[s].is_open)

DoTransactionClose(x, end_time) ==
    /\ x \in 1..Len(txns)
    /\ Step(TransactionClose(World, x, end_time), "txn_close", txns[x].is_open)

DoAddUint(x, name, value, radix) ==
    /\ x \in 1..Len(txns)
    /\ Step(AddUint(World, x, name, value, radix), "add_uint", txns[x].is_open)

DoAddString(x, name, value) ==
    /\ x \in 1..Len(txns)
    /\ Step(AddString(World, x, name, value), "add_string", txns[x].is_open)

DoAddInt(x, name, value, radix) ==
    /\ x \in 1..Len(txns)
    /\ Step(AddInt(World, x, name, value, radix), "add_int", txns[x].is_open)

DoAddFloat(x, name, value) ==
    /\ x \in 1..Len(txns)
    /\ Step(AddFloat(World, x, name, value), "add_float", txns[x].is_open)

DoAddTime(x, name, value) ==
    /\ x \in 1..Len(txns)
    /\ Step(AddTime(World, x, name, value), "add_time", txns[x].is_open)

\* last keeps the arguments of add_bits.
DoAddBits(x, name, bits, num_bits, radix) ==
    /\ x \in 1..Len(txns)
    /\ LET W == AddBits(World, x, name, bits, num_bits, radix) IN
       /\ calls' = calls + 1
       /\ traces' = W.traces
       /\ streams' = W.streams
       /\ txns' = W.txns
       /\ last' = [op |-> "add_bits", pre_open |-> txns[x].is_open, res |-> Result(W),
                   txn |-> x, name |-> name, bits |-> bits, num_bits |-> num_bits,
                   radix |-> radix]
       /\ UNCHANGED <<writer, legacy>>

DoAddBlob(x, name, data) ==
    /\ x \in 1..Len(txns)
    /\ Step(AddBlob(World, x, name, data), "add_blob", txns[x].is_open)

DoAddLink(x, target) ==
    /\ x \in 1..Len(txns)
    /\ target \in 1..Len(txns)
    /\ Step(AddLink(World, x, target), "add_link", txns[x].is_open)

DoStreamClose(s) ==
    /\ s \in 1..Len(streams)
    /\ Step(StreamClose(World, s), "stream_close", streams[s].is_open)

DoTraceClose(t) ==
    /\ Step(TraceClose(World, t), "trace_close", traces[t].file # "none")

\* The device under the file of trace t runs short of room: from now on it
\* takes one more packet or none, and a packet it refuses is cut after its
\* length prefix or does not get out at all.
DoDeviceFills(t, state) ==
    /\ traces[t].file = "open"
    /\ Step([World EXCEPT !.traces[t].file = state], "device_fills", TRUE)

\* One call made on the Perfetto objects and on the legacy objects of the same
\* creation order.
StepBoth(W, L, op, pre_open) ==
    /\ calls' = calls + 1
    /\ traces' = W.traces
    /\ streams' = W.streams
    /\ txns' = W.txns
    /\ legacy' = L
    /\ last' = [op |-> op, pre_open |-> pre_open, res |-> Result(W)]
    /\ UNCHANGED writer

DoBothCreateStream(name) ==
    StepBoth(CreateStream(World, 1, name), LegacyOpenStream(LegacyWorld, name),
             "create_stream", traces[1].file # "none")

DoBothBeginTransaction(s, name, start_time, type_name) ==
    /\ s \in 1..Len(streams) /\ s \in 1..Len(legacy.streams)
    /\ StepBoth(BeginTransaction(World, s, name, start_time, type_name, 0),
                LegacyOpenTransaction(LegacyWorld, s, name, start_time, type_name),
                "begin_transaction", streams[s].is_open)

DoBothTransactionClose(x, end_time) ==
    /\ x \in 1..Len(txns) /\ x \in 1..Len(legacy.txns)
    /\ StepBoth(TransactionClose(World, x, end_time),
                LegacyCloseTransaction(LegacyWorld, x, end_time),
                "txn_close", txns[x].is_open)

DoBothAddLink(x, target) ==
    /\ {x, target} \subseteq 1..Len(txns) /\ {x, target} \subseteq 1..Len(legacy.txns)
    /\ StepBoth(AddLink(World, x, target), LegacyAddLink(LegacyWorld, x, target),
                "add_link", txns[x].is_open)

DoBothStreamClose(s) ==
    /\ s \in 1..Len(streams) /\ s \in 1..Len(legacy.streams)
    /\ StepBoth(StreamClose(World, s), LegacyCloseStream(LegacyWorld, s),
                "stream_close", streams[s].is_open)

DoBothTraceClose ==
    StepBoth(TraceClose(World, 1), LegacyCloseTrace(LegacyWorld),
             "trace_close", traces[1].file # "none")

\* A program that holds one trace and makes at most MaxCalls calls.
Next ==
    \/ \E t \in {1}, name \in StreamNames :
          calls < MaxCalls /\ DoCreateStream(t, name)
    \/ \E s \in 1..Len(streams), name \in TxnNames, start_time \in Times,
          type_name \in TypeNames, parent \in Foreign..Len(txns) :
          calls < MaxCalls /\ DoBeginTransaction(s, name, start_time, type_name, parent)
    \/ \E x \in 1..Len(txns), end_time \in Times :
          calls < MaxCalls /\ DoTransactionClose(x, end_time)
    \/ \E x \in 1..Len(txns), name \in AttrNames, value \in AttrValues :
          calls < MaxCalls /\ DoAddUint(x, name, value, RadixHEX)
    \/ \E x \in 1..Len(txns), target \in 1..Len(txns) :
          calls < MaxCalls /\ DoAddLink(x, target)
    \/ \E s \in 1..Len(streams) : calls < MaxCalls /\ DoStreamClose(s)
    \/ \E t \in {1} : calls < MaxCalls /\ DoTraceClose(t)

\* A program that holds both traces and makes at most MaxCallsMulti calls.
NextMulti ==
    \/ \E t \in Traces, name \in StreamNames :
          calls < MaxCallsMulti /\ DoCreateStream(t, name)
    \/ \E s \in 1..Len(streams), name \in TxnNames, start_time \in Times,
          type_name \in TypeNames, parent \in Foreign..Len(txns) :
          calls < MaxCallsMulti /\ DoBeginTransaction(s, name, start_time, type_name, parent)
    \/ \E x \in 1..Len(txns), end_time \in Times :
          calls < MaxCallsMulti /\ DoTransactionClose(x, end_time)
    \/ \E x \in 1..Len(txns), name \in AttrNames, value \in AttrValues :
          calls < MaxCallsMulti /\ DoAddUint(x, name, value, RadixHEX)
    \/ \E x \in 1..Len(txns), target \in 1..Len(txns) :
          calls < MaxCallsMulti /\ DoAddLink(x, target)
    \/ \E s \in 1..Len(streams) : calls < MaxCallsMulti /\ DoStreamClose(s)
    \/ \E t \in Traces : calls < MaxCallsMulti /\ DoTraceClose(t)

\* A program that holds one trace with one stream, begins root transactions at
\* the times of ScenarioTimes, gives them attributes of two kinds and links,
\* and makes at most MaxCallsAttrs calls.
NextAttrs ==
    \/ \E name \in StreamNames :
          calls < MaxCallsAttrs /\ streams = <<>> /\ DoCreateStream(1, name)
    \/ \E s \in 1..Len(streams), name \in TxnNames, start_time \in ScenarioTimes,
          type_name \in TypeNames :
          calls < MaxCallsAttrs /\ DoBeginTransaction(s, name, start_time, type_name, 0)
    \/ \E x \in 1..Len(txns), end_time \in ScenarioTimes :
          calls < MaxCallsAttrs /\ DoTransactionClose(x, end_time)
    \/ \E x \in 1..Len(txns), name \in AttrNames, value \in AttrValues :
          calls < MaxCallsAttrs /\ DoAddUint(x, name, value, RadixHEX)
    \/ \E x \in 1..Len(txns), name \in StringAttrNames, value \in StringAttrValues :
          calls < MaxCallsAttrs /\ DoAddString(x, name, value)
    \/ \E x \in 1..Len(txns), target \in 1..Len(txns) :
          calls < MaxCallsAttrs /\ DoAddLink(x, target)
    \/ \E s \in 1..Len(streams) : calls < MaxCallsAttrs /\ DoStreamClose(s)
    \/ \E t \in {1} : calls < MaxCallsAttrs /\ DoTraceClose(t)

\* A program that holds one trace on a device that may run out of room, and
\* makes at most MaxCallsFaulty calls.
NextFaulty ==
    \/ \E name \in StreamNames :
          calls < MaxCallsFaulty /\ DoCreateStream(1, name)
    \/ \E s \in 1..Len(streams), name \in TxnNames, start_time \in Times,
          type_name \in TypeNames, parent \in 0..Len(txns) :
          calls < MaxCallsFaulty /\ DoBeginTransaction(s, name, start_time, type_name, parent)
    \/ \E x \in 1..Len(txns), end_time \in Times :
          calls < MaxCallsFaulty /\ DoTransactionClose(x, end_time)
    \/ \E s \in 1..Len(streams) : calls < MaxCallsFaulty /\ DoStreamClose(s)
    \/ \E t \in {1} : calls < MaxCallsFaulty /\ DoTraceClose(t)
    \/ \E state \in DeviceStates : calls < MaxCallsFaulty /\ DoDeviceFills(1, state)

\* The exponents at the edges of the 7-bit groups, of the i32 range and of the
\* i64 and u64 ranges.
Exponents == {0, 1, 6, 7, 13, 14, 31, 32, 35, 56, 62, 63}

\* The values a program passes to write_varint: of the u64 range, and negative.
VarintInputs ==
    {Pow(e) : e \in Exponents} \cup {Ones(k) : k \in {0, 7, 8, 14, 63, 64}}
    \cup {NegPow(e) : e \in {0, 7, 63}}

\* The values a program passes to write_int64_field: of the i64 range, with
\* its minimum NegPow(63) and its maximum Ones(63).
Int64Inputs ==
    {Pow(e) : e \in Exponents \ {63}} \cup {NegPow(e) : e \in Exponents}
    \cup {NotPow(e) : e \in Exponents \ {63}} \cup {Ones(k) : k \in {0, 7, 31, 63}}

FieldNumbers == {1}

DoWriteVarint(value) ==
    /\ writer' = [writer EXCEPT !.output = WriteVarint(@, value)]
    /\ last' = [op |-> "write_varint", pre_open |-> TRUE, res |-> "ok",
                value |-> value]
    /\ calls' = calls + 1
    /\ UNCHANGED <<traces, streams, txns, legacy>>

DoWriteInt64Field(field_number, value) ==
    /\ writer' = [writer EXCEPT !.output = WriteInt64Field(@, field_number, value)]
    /\ last' = [op |-> "write_int64_field", pre_open |-> TRUE, res |-> "ok",
                field_number |-> field_number, value |-> value]
    /\ calls' = calls + 1
    /\ UNCHANGED <<traces, streams, txns, legacy>>

\* A program that makes at most MaxCallsCodec calls on one ProtobufWriter.
NextCodec ==
    \/ \E value \in VarintInputs : calls < MaxCallsCodec /\ DoWriteVarint(value)
    \/ \E field_number \in FieldNumbers, value \in Int64Inputs :
          calls < MaxCallsCodec /\ DoWriteInt64Field(field_number, value)

\* A program that opens one stream and one transaction and gives it
\* attributes, making at most MaxCallsBits calls.
NextBits ==
    \/ \E name \in StreamNames :
          calls < MaxCallsBits /\ streams = <<>> /\ DoCreateStream(1, name)
    \/ \E s \in 1..Len(streams), name \in TxnNames, start_time \in ScenarioTimes,
          type_name \in TypeNames :
          calls < MaxCallsBits /\ txns = <<>>
          /\ DoBeginTransaction(s, name, start_time, type_name, 0)
    \/ \E x \in 1..Len(txns), name \in AttrNames, value \in IntValues, radix \in Radix :
          calls < MaxCallsBits /\ DoAddInt(x, name, value, radix)
    \/ \E x \in 1..Len(txns), name \in AttrNames, value \in AttrValues, radix \in Radix :
          calls < MaxCallsBits /\ DoAddUint(x, name, value, radix)
    \/ \E x \in 1..Len(txns), name \in AttrNames, value \in FloatValues :
          calls < MaxCallsBits /\ DoAddFloat(x, name, value)
    \/ \E x \in 1..Len(txns), name \in StringAttrNames, value \in StringAttrValues :
          calls < MaxCallsBits /\ DoAddString(x, name, value)
    \/ \E x \in 1..Len(txns), name \in AttrNames, value \in AttrValues :
          calls < MaxCallsBits /\ DoAddTime(x, name, value)
    \/ \E x \in 1..Len(txns), name \in AttrNames, bits \in BitsInputs,
          num_bits \in NumBitsInputs, radix \in Radix :
          calls < MaxCallsBits /\ DoAddBits(x, name, bits, num_bits, radix)
    \/ \E x \in 1..Len(txns), name \in AttrNames, data \in BitsInputs :
          calls < MaxCallsBits /\ DoAddBlob(x, name, data)

\* A program that makes the same calls, at most MaxCallsBoth of them, on a
\* PerfettoTrace and on a legacy Trace, on the objects both have returned.
NextBoth ==
    \/ \E name \in StreamNames : calls < MaxCallsBoth /\ DoBothCreateStream(name)
    \/ \E s \in 1..Len(streams), name \in TxnNames, start_time \in Times,
          type_name \in TypeNames :
          calls < MaxCallsBoth /\ DoBothBeginTransaction(s, name, start_time, type_name)
    \/ \E x \in 1..Len(txns), end_time \in Times :
          calls < MaxCallsBoth /\ DoBothTransactionClose(x, end_time)
    \/ \E x \in 1..Len(txns), target \in 1..Len(txns) :
          calls < MaxCallsBoth /\ DoBothAddLink(x, target)
    \/ \E s \in 1..Len(streams) : calls < MaxCallsBoth /\ DoBothStreamClose(s)
    \/ calls < MaxCallsBoth /\ DoBothTraceClose

Spec == Init /\ [][Next]_vars

SpecMulti == Init /\ [][NextMulti]_vars

SpecAttrs == Init /\ [][NextAttrs]_vars

SpecFaulty == Init /\ [][NextFaulty]_vars

SpecCodec == Init /\ [][NextCodec]_vars

SpecBits == Init /\ [][NextBits]_vars

SpecBoth == Init /\ [][NextBoth]_vars

\* ---- what the claims speak of -------------------------------------------
TraceOf(x) == streams[txns[x].stream].trace

Out(t) == traces[t].out

IsSlice(p) == p.kind \in {"slice_begin", "slice_end"}

\* The entity state of the program: everything but the history variables.
Entities == <<traces, streams, txns>>

\* C1: Transaction.close(end_time) on an OPEN transaction appends exactly two
\* packets to the output of its trace, adjacent and in this order: a slice-begin
\* with timestamp start_time and a slice-end with timestamp end_time, both with
\* the transaction's own track UUID; nothing else is written.
C1_CloseAppendsSlicePair ==
    [][\A x \in 1..Len(txns), e \in Times :
        (txns[x].is_open /\ DoTransactionClose(x, e)) =>
            LET t == TraceOf(x)
                n == Len(Out(t))
                o == traces'[t].out
            IN /\ Len(o) = n + 2
               /\ SubSeq(o, 1, n) = Out(t)
               /\ o[n + 1].kind = "slice_begin"
               /\ o[n + 1].timestamp = txns[x].start_time
               /\ o[n + 1].track_uuid = txns[x].track_uuid
               /\ o[n + 2].kind = "slice_end"
               /\ o[n + 2].timestamp = e
               /\ o[n + 2].track_uuid = txns[x].track_uuid
               /\ \A u \in Traces \ {t} : traces'[u].out = Out(u)]_vars

\* A transaction that started at 0 has just been closed at 1 and its slice pair
\* ends the output.
C1_Witness ==
    /\ last = [op |-> "txn_close", pre_open |-> TRUE, res |-> "ok"]
    /\ \E x \in 1..Len(txns) :
          LET o == Out(TraceOf(x)) IN
          /\ ~txns[x].is_open /\ txns[x].start_time = 0 /\ txns[x].end_time = 1
          /\ Len(o) >= 2
          /\ o[Len(o) - 1].kind = "slice_begin" /\ o[Len(o) - 1].timestamp = 0
          /\ o[Len(o)].kind = "slice_end" /\ o[Len(o)].timestamp = 1

\* C2: Transaction.close on a transaction that is already CLOSED appends no
\* packet and leaves its end_time and all other trace state unchanged, whatever
\* end time is passed.
C2_CloseIsIdempotent ==
    [][\A x \in 1..Len(txns), e \in Times :
        (~txns[x].is_open /\ DoTransactionClose(x, e)) => UNCHANGED Entities]_vars

\* close has just been called on a transaction that was closed earlier.
C2_Witness ==
    /\ last = [op |-> "txn_close", pre_open |-> FALSE, res |-> "ok"]
    /\ \E x \in 1..Len(txns) : ~txns[x].is_open /\ txns[x].end_time = 1

\* C3: after Transaction.close(end_time) on an OPEN transaction, for every
\* end_time including 0, is_closed() is true, is_open() is false and end_time is
\* the value passed; and at every moment exactly one of is_open() and
\* is_closed() is true of a transaction.
C3_ClosedAfterClose ==
    [][/\ \A x \in 1..Len(txns), e \in Times :
            (txns[x].is_open /\ DoTransactionClose(x, e)) =>
                /\ TransactionIsClosed(World', x)
                /\ ~TransactionIsOpen(World', x)
                /\ txns'[x].end_time = e
       /\ \A x \in 1..Len(txns') :
            TransactionIsOpen(World', x) # TransactionIsClosed(World', x)]_vars

\* The still-open transactions of stream s, in the order of its list.
OpenTransactionsOf(s) ==
    SelectSeq(streams[s].transactions, LAMBDA x : txns[x].is_open)

\* C4: Stream.close on an OPEN stream closes each of its N still-open
\* transactions with that transaction's start_time as end_time, writing one
\* slice-begin/slice-end pair with equal timestamps for each, leaves the other
\* transactions as they are, and marks the stream CLOSED.
C4_StreamCloseForceCloses ==
    [][\A s \in 1..Len(streams) :
        (streams[s].is_open /\ DoStreamClose(s)) =>
            LET t == streams[s].trace
                open == OpenTransactionsOf(s)
                n == Len(Out(t))
                o == traces'[t].out
            IN /\ ~streams'[s].is_open
               /\ Len(o) = n + 2 * Len(open)
               /\ SubSeq(o, 1, n) = Out(t)
               /\ \A k \in 1..Len(open) :
                    LET txn == txns[open[k]]
                        b == o[n + 2 * k - 1]
                        e == o[n + 2 * k]
                    IN /\ b.kind = "slice_begin" /\ e.kind = "slice_end"
                       /\ b.timestamp = txn.start_time
                       /\ e.timestamp = txn.start_time
                       /\ b.track_uuid = txn.track_uuid
                       /\ e.track_uuid = txn.track_uuid
               /\ Len(txns') = Len(txns)
               /\ \A x \in 1..Len(txns) :
                    txns'[x] = IF txns[x].stream = s /\ txns[x].is_open
                               THEN [txns[x] EXCEPT !.is_open = FALSE,
                                                    !.end_time = txns[x].start_time]
                               ELSE txns[x]]_vars

\* A stream with two open transactions, started at 0 and at 1, and one closed
\* before with another end time than its start time, has just been closed.
C4_Witness ==
    /\ last = [op |-> "stream_close", pre_open |-> TRUE, res |-> "ok"]
    /\ calls = 6
    /\ Len(streams) = 1 /\ ~streams[1].is_open
    /\ Len(txns) = 3
    /\ \E a, b, c \in 1..3 :
          /\ txns[a].start_time = 0 /\ txns[a].end_time = 0
          /\ txns[b].start_time = 1 /\ txns[b].end_time = 1
          /\ txns[c].start_time = 0 /\ txns[c].end_time = 1
    /\ Len(Out(1)) = 8

\* C5: Stream.close on an already CLOSED stream returns without appending a
\* packet and without changing any stream, transaction or counter.
C5_StreamCloseIsIdempotent ==
    [][\A s \in 1..Len(streams) :
        (~streams[s].is_open /\ DoStreamClose(s)) =>
            UNCHANGED Entities /\ last'.res = "ok"]_vars

\* close has just been called on a closed stream that owns a transaction.
C5_Witness ==
    /\ last = [op |-> "stream_close", pre_open |-> FALSE, res |-> "ok"]
    /\ \E s \in 1..Len(streams) :
          ~streams[s].is_open /\ streams[s].transactions # <<>>

\* C6: Trace.close closes every stream of the trace that is still OPEN, and
\* with it the open transactions of that stream, and then releases the output
\* file; the file is released once however much was left open, only by
\* Trace.close, and a second Trace.close changes nothing.
C6_TraceCloseReleasesOnce ==
    [][/\ \A t \in Traces :
            DoTraceClose(t) =>
                /\ traces'[t].file = "none"
                /\ traces'[t].releases = 1
                /\ last'.res = "ok"
                /\ IF traces[t].file = "none" THEN UNCHANGED Entities
                   ELSE /\ \A s \in 1..Len(streams) :
                             streams'[s].is_open =
                                 (streams[s].is_open /\ streams[s].trace # t)
                        /\ \A x \in 1..Len(txns) :
                             txns'[x] = IF TraceOf(x) = t /\ txns[x].is_open
                                        THEN [txns[x] EXCEPT
                                                 !.is_open = FALSE,
                                                 !.end_time = txns[x].start_time]
                                        ELSE txns[x]
       /\ \A t \in Traces :
            /\ traces'[t].releases = IF traces'[t].file = "none" THEN 1 ELSE 0
            /\ traces'[t].releases # traces[t].releases =>
                   last'.op = "trace_close"]_vars

\* A trace with two streams, each with an open transaction, has been closed
\* and then closed a second time.
C6_Witness ==
    /\ last = [op |-> "trace_close", pre_open |-> FALSE, res |-> "ok"]
    /\ calls = 6
    /\ Len(streams) = 2 /\ ~streams[1].is_open /\ ~streams[2].is_open
    /\ Len(txns) = 2 /\ txns[1].stream # txns[2].stream
    /\ ~txns[1].is_open /\ ~txns[2].is_open
    /\ traces[1].releases = 1

\* C7: the clock snapshot is written once per trace, at its creation: in every
\* state the output of a trace starts with the clock-snapshot packet (timestamp
\* 0, one clock entry with clock id 64 and timestamp 0) and holds no other.
C7_ClockSnapshotFirstAndOnly ==
    \A t \in Traces :
        /\ Len(Out(t)) >= 1
        /\ Out(t)[1] = [kind |-> "clock_snapshot", timestamp |-> 0,
                        clocks |-> <<[clock_id |-> 64, timestamp |-> 0]>>]
        /\ \A i \in 2..Len(Out(t)) : Out(t)[i].kind # "clock_snapshot"

\* A trace that wrote a track descriptor and slices has been closed.
C7_Witness ==
    /\ last.op = "trace_close"
    /\ \E t \in Traces :
          /\ traces[t].file = "none"
          /\ Len(Out(t)) >= 4
          /\ \E i \in 2..Len(Out(t)) : IsSlice(Out(t)[i])

\* The places of the track descriptors with uuid u in the output of trace t.
DescriptorsOf(t, u) ==
    {i \in 1..Len(Out(t)) :
        Out(t)[i].kind = "track_descriptor" /\ Out(t)[i].uuid = u}

\* The output of t has one track descriptor with uuid u, and it comes before
\* every slice packet on track u.
DescribedOnceBeforeUse(t, u) ==
    /\ Cardinality(DescriptorsOf(t, u)) = 1
    /\ \A i \in DescriptorsOf(t, u), j \in 1..Len(Out(t)) :
          (IsSlice(Out(t)[j]) /\ Out(t)[j].track_uuid = u) => i < j

OtherTracks(t, x) ==
    {streams[s].track_uuid : s \in {r \in 1..Len(streams) : streams[r].trace = t}}
    \cup {txns[y].track_uuid :
            y \in {z \in 1..Len(txns) : z # x /\ txns[z].parent # 0 /\ TraceOf(z) = t}}

\* C9: a transaction begun without a parent has its stream's track UUID; one
\* begun with a parent has a track UUID taken from the counter of its trace,
\* different from the UUID of every other track of that trace, and the track
\* descriptor written for it has parent_uuid equal to the track UUID of the
\* parent transaction, whatever track that is.
C9_TrackOfTransaction ==
    \A x \in 1..Len(txns) :
        IF txns[x].parent = 0
        THEN txns[x].track_uuid = streams[txns[x].stream].track_uuid
        ELSE /\ txns[x].track_uuid \in 1..(traces[TraceOf(x)].next_track_uuid - 1)
             /\ txns[x].track_uuid \notin OtherTracks(TraceOf(x), x)
             /\ DescriptorsOf(TraceOf(x), txns[x].track_uuid) # {}
             /\ \A i \in DescriptorsOf(TraceOf(x), txns[x].track_uuid) :
                   Out(TraceOf(x))[i].parent_uuid = txns[txns[x].parent].track_uuid

\* A transaction whose parent is itself a child transaction, so that the
\* parent's track is not the stream's.
C9_Witness ==
    \E x \in 1..Len(txns) :
        /\ txns[x].parent # 0
        /\ txns[txns[x].parent].parent # 0
        /\ txns[txns[x].parent].track_uuid # streams[txns[x].stream].track_uuid

TrackDescriptorCount(t) ==
    Cardinality({i \in 1..Len(Out(t)) : Out(t)[i].kind = "track_descriptor"})

ChildTransactionsOf(t) ==
    {x \in 1..Len(txns) : txns[x].parent # 0 /\ TraceOf(x) = t}

\* C10: begin_transaction without a parent leaves the track-id counter and the
\* output of every trace as they were; and in every state the number of track
\* descriptors in a trace's output is the number of its streams plus the number
\* of its transactions begun with a parent.
C10_RootTransactionAllocatesNoTrack ==
    /\ [](\A t \in Traces :
            TrackDescriptorCount(t) =
                Len(traces[t].streams) + Cardinality(ChildTransactionsOf(t)))
    /\ [][\A s \in 1..Len(streams), name \in TxnNames, start_time \in Times,
            type_name \in TypeNames :
            DoBeginTransaction(s, name, start_time, type_name, 0) =>
                \A t \in Traces :
                    /\ traces'[t].next_track_uuid = traces[t].next_track_uuid
                    /\ traces'[t].out = traces[t].out]_vars

\* A root transaction has just been begun on a stream that already has a child
\* transaction.
C10_Witness ==
    /\ last = [op |-> "begin_transaction", pre_open |-> TRUE, res |-> "ok"]
    /\ Len(txns) >= 3
    /\ txns[Len(txns)].parent = 0
    /\ \E y \in 1..Len(txns) : txns[y].parent # 0 /\ txns[y].stream = txns[Len(txns)].stream

\* C11: begin_transaction on a CLOSED stream raises, whatever parent is passed,
\* before anything is allocated: no transaction is created, no transaction or
\* track id is consumed, no packet is written, no stream or trace changes.
C11_BeginOnClosedStreamRaises ==
    [][\A s \in 1..Len(streams), name \in TxnNames, start_time \in Times,
         type_name \in TypeNames, parent \in Foreign..Len(txns) :
        (~streams[s].is_open /\ DoBeginTransaction(s, name, start_time, type_name, parent))
            => /\ last'.res = "raised"
               /\ UNCHANGED Entities]_vars

\* begin_transaction has just raised on a closed stream whose trace is still
\* open and which owns a transaction that could have been the parent.
C11_Witness ==
    /\ last = [op |-> "begin_transaction", pre_open |-> FALSE, res |-> "raised"]
    /\ \E s \in 1..Len(streams) :
          /\ ~streams[s].is_open
          /\ traces[streams[s].trace].file = "open"
          /\ streams[s].transactions # <<>>

\* C12: begin_transaction on stream S with a parent transaction that belongs
\* to another stream, of the same or of another trace, raises: no transaction
\* is created, no track id is allocated and no track descriptor is written.
C12_ParentOfOtherStreamRaises ==
    [][\A s \in 1..Len(streams), name \in TxnNames, start_time \in Times,
         type_name \in TypeNames, parent \in 1..Len(txns) :
        (/\ streams[s].is_open
         /\ txns[parent].stream # s
         /\ DoBeginTransaction(s, name, start_time, type_name, parent))
            => /\ last'.res = "raised"
               /\ Len(txns') = Len(txns)
               /\ \A t \in Traces :
                     /\ traces'[t].next_track_uuid = traces[t].next_track_uuid
                     /\ traces'[t].out = traces[t].out]_vars

\* Sequence q is sequence p followed by one or more copies of v.
ExtendedBy(p, q, v) ==
    /\ Len(q) > Len(p)
    /\ SubSeq(q, 1, Len(p)) = p
    /\ \A i \in (Len(p) + 1)..Len(q) : q[i] = v

\* C13: A.add_link(B) takes exactly one id from the flow counter of A's trace,
\* the value the counter had, and appends it to the end of A's and of B's flow
\* list: each of the two lists is the old list followed by that id (by nothing
\* but that id when A is B), no other list and no other counter changes, and
\* lists that were empty hold that id and no other afterwards.
C13_LinkSharesOneFlowId ==
    [][\A a \in 1..Len(txns), b \in 1..Len(txns) :
        DoAddLink(a, b) =>
            LET t == TraceOf(a)
                id == traces[t].next_flow_id
            IN /\ last'.res = "ok"
               /\ traces'[t].next_flow_id = id + 1
               /\ \A u \in Traces \ {t} :
                     traces'[u].next_flow_id = traces[u].next_flow_id
               /\ IF a = b
                  THEN ExtendedBy(txns[a].flow_ids, txns'[a].flow_ids, id)
                  ELSE /\ txns'[a].flow_ids = Append(txns[a].flow_ids, id)
                       /\ txns'[b].flow_ids = Append(txns[b].flow_ids, id)
               /\ \A y \in 1..Len(txns) \ {a, b} :
                     txns'[y].flow_ids = txns[y].flow_ids
               /\ (txns[a].flow_ids = <<>> /\ txns[b].flow_ids = <<>>) =>
                     \A y \in {a, b} :
                        {txns'[y].flow_ids[i] : i \in 1..Len(txns'[y].flow_ids)} = {id}]_vars

\* Two transactions have just been linked a second time: both flow lists hold
\* the ids 1 and 2 in this order.
C13_Witness ==
    /\ last = [op |-> "add_link", pre_open |-> TRUE, res |-> "ok"]
    /\ \E a \in 1..Len(txns), b \in 1..Len(txns) :
          /\ a # b
          /\ txns[a].flow_ids = <<1, 2>>
          /\ txns[b].flow_ids = <<1, 2>>
          /\ traces[TraceOf(a)].next_flow_id = 3

SliceBeginsFrom(o, i) ==
    Cardinality({j \in i..Len(o) : o[j].kind = "slice_begin"})

\* C15: add_uint, add_string and add_link on a CLOSED transaction return
\* normally and append to its attribute list or flow list, and leave the output
\* of every trace as it was; and no step ever changes a packet already written
\* or writes a slice for a transaction that was closed before the step, so the
\* late attribute or flow id never reaches the output for that transaction.
C15_LateAttributesStayInMemory ==
    [][/\ \A x \in 1..Len(txns), name \in AttrNames, value \in AttrValues :
            (~txns[x].is_open /\ DoAddUint(x, name, value, RadixHEX)) =>
                /\ last'.res = "ok"
                /\ txns'[x].attributes =
                       Append(txns[x].attributes,
                              [name |-> FormatName(name, RadixHEX),
                               kind |-> "uint_value", value |-> value])
                /\ traces' = traces
       /\ \A x \in 1..Len(txns), name \in StringAttrNames, value \in StringAttrValues :
            (~txns[x].is_open /\ DoAddString(x, name, value)) =>
                /\ last'.res = "ok"
                /\ txns'[x].attributes =
                       Append(txns[x].attributes,
                              [name |-> name, kind |-> "string_value", value |-> value])
                /\ traces' = traces
       /\ \A a \in 1..Len(txns), b \in 1..Len(txns) :
            ((~txns[a].is_open \/ ~txns[b].is_open) /\ DoAddLink(a, b)) =>
                /\ last'.res = "ok"
                /\ \A y \in {a, b} :
                      ExtendedBy(txns[y].flow_ids, txns'[y].flow_ids,
                                 traces[TraceOf(a)].next_flow_id)
                /\ \A t \in Traces : traces'[t].out = traces[t].out
       /\ \A t \in Traces :
            /\ Len(traces'[t].out) >= Len(Out(t))
            /\ SubSeq(traces'[t].out, 1, Len(Out(t))) = Out(t)
            /\ SliceBeginsFrom(traces'[t].out, Len(Out(t)) + 1) =
                   Cardinality({x \in 1..Len(txns) :
                       TraceOf(x) = t /\ txns[x].is_open /\ ~txns'[x].is_open})]_vars

\* A transaction was closed with one attribute and no link, then given a second
\* attribute and linked to an open transaction: the only slice-begin of the
\* output has the one attribute and no flow id.
C15_Witness ==
    /\ last = [op |-> "add_link", pre_open |-> FALSE, res |-> "ok"]
    /\ Len(txns) = 2
    /\ ~txns[1].is_open /\ txns[2].is_open
    /\ Len(txns[1].attributes) = 2
    /\ txns[1].flow_ids = <<1>>
    /\ Len(Out(1)) = 4
    /\ Out(1)[3].kind = "slice_begin"
    /\ Len(Out(1)[3].debug_annotations) = 1
    /\ Out(1)[3].flow_ids = <<>>
    /\ Out(1)[4].flow_ids = <<>>

\* C16: add_link with a source or a target transaction that is already CLOSED
\* is flagged to the caller: the call does not return normally.
C16_LinkOnClosedIsFlagged ==
    [][\A a \in 1..Len(txns), b \in 1..Len(txns) :
        ((~txns[a].is_open \/ ~txns[b].is_open) /\ DoAddLink(a, b)) =>
            last'.res = "raised"]_vars

\* The three id counters of trace t.
Counters(t) ==
    <<traces[t].next_track_uuid, traces[t].next_transaction_id, traces[t].next_flow_id>>

\* In every state: the ids of the transactions of one trace, of whatever
\* stream, grow strictly in creation order and lie below the counter; so do the
\* track UUIDs of its streams and those of its child transactions.
IdsIncrease ==
    /\ calls = 0 => \A t \in Traces : Counters(t) = <<1, 1, 1>>
    /\ \A x \in 1..Len(txns) :
          /\ txns[x].id \in 1..(traces[TraceOf(x)].next_transaction_id - 1)
          /\ \A y \in (x + 1)..Len(txns) :
                TraceOf(y) = TraceOf(x) =>
                    /\ txns[x].id < txns[y].id
                    /\ (txns[x].parent # 0 /\ txns[y].parent # 0) =>
                           txns[x].track_uuid < txns[y].track_uuid
    /\ \A s \in 1..Len(streams) :
          /\ streams[s].track_uuid \in 1..(traces[streams[s].trace].next_track_uuid - 1)
          /\ \A r \in (s + 1)..Len(streams) :
                streams[r].trace = streams[s].trace =>
                    streams[s].track_uuid < streams[r].track_uuid

\* C17: the track, transaction and flow counters of a trace start at 1; a call
\* leaves a counter as it is or advances it by 1, and the id it hands out (to
\* a new stream, a new transaction, a new child track, a new link) is the value
\* the counter had; so the ids handed out by a counter grow strictly, none is
\* handed out twice, whatever was closed in between, and transaction ids are
\* unique across the streams of the trace.
C17_CountersHandOutFreshIds ==
    /\ []IdsIncrease
    /\ [][/\ \A t \in Traces, k \in 1..3 :
               Counters(t)'[k] \in {Counters(t)[k], Counters(t)[k] + 1}
          /\ Len(streams') > Len(streams) =>
               LET s == Len(streams') IN
               /\ streams'[s].track_uuid = traces[streams'[s].trace].next_track_uuid
               /\ traces'[streams'[s].trace].next_track_uuid = streams'[s].track_uuid + 1
          /\ Len(txns') > Len(txns) =>
               LET x == Len(txns')
                   t == streams[txns'[x].stream].trace
               IN /\ txns'[x].id = traces[t].next_transaction_id
                  /\ traces'[t].next_transaction_id = txns'[x].id + 1
                  /\ txns'[x].parent # 0 =>
                       /\ txns'[x].track_uuid = traces[t].next_track_uuid
                       /\ traces'[t].next_track_uuid = txns'[x].track_uuid + 1
          /\ \A a \in 1..Len(txns), b \in 1..Len(txns) :
               DoAddLink(a, b) =>
                   txns'[a].flow_ids[Len(txns'[a].flow_ids)] =
                       traces[TraceOf(a)].next_flow_id]_vars

\* The transaction with id 1 was closed, and then a transaction was begun on
\* another stream of the same trace: its id is 2.
C17_Witness ==
    /\ last = [op |-> "begin_transaction", pre_open |-> TRUE, res |-> "ok"]
    /\ Len(txns) = 2
    /\ ~txns[1].is_open /\ txns[1].id = 1
    /\ txns[2].id = 2
    /\ txns[1].stream # txns[2].stream
    /\ TraceOf(1) = TraceOf(2)

\* C18: the output is append-only: in every step the packet log of every
\* trace before the step is a prefix of the packet log after it.
C18_OutputIsAppendOnly ==
    [][\A t \in Traces :
        /\ Len(traces'[t].out) >= Len(traces[t].out)
        /\ \A i \in 1..Len(traces[t].out) : traces'[t].out[i] = traces[t].out[i]]_vars

\* A trace has written its stream's and a child's track descriptor and then
\* the slice pairs of two transactions, the last one just now.
C18_Witness ==
    /\ last = [op |-> "txn_close", pre_open |-> TRUE, res |-> "ok"]
    /\ \E t \in Traces :
          /\ Len(Out(t)) = 7
          /\ Out(t)[3].kind = "track_descriptor"
          /\ Out(t)[4].kind = "slice_begin"
          /\ Out(t)[5].kind = "slice_end"
          /\ Out(t)[6].kind = "slice_begin"
          /\ Out(t)[7].kind = "slice_end"

\* The four packets of the scenario of C19.
ScenarioOutput ==
    <<[kind |-> "clock_snapshot", timestamp |-> 0,
       clocks |-> <<[clock_id |-> 64, timestamp |-> 0]>>],
      [kind |-> "track_descriptor", timestamp |-> 0, uuid |-> 1, name |-> "bus",
       parent_uuid |-> 0],
      [kind |-> "slice_begin", timestamp |-> 100, track_uuid |-> 1, name |-> "RD",
       categories |-> <<>>,
       debug_annotations |-> <<[name |-> "addr[hex]", kind |-> "uint_value",
                                value |-> 16]>>,
       flow_ids |-> <<>>],
      [kind |-> "slice_end", timestamp |-> 200, track_uuid |-> 1, flow_ids |-> <<>>]>>

\* The state after create_stream("bus"), begin_transaction("RD", 100) and
\* add_uint("addr", 16, HEX): three calls can have reached it in no other way.
ScenarioBeforeClose ==
    /\ calls = 3
    /\ last.op = "add_uint"
    /\ Len(streams) = 1 /\ streams[1].name = "bus" /\ streams[1].trace = 1
    /\ Len(txns) = 1 /\ txns[1].name = "RD" /\ txns[1].start_time = 100
    /\ txns[1].is_open
    /\ Len(txns[1].attributes) = 1

\* C19: after create_stream("bus"), begin_transaction("RD", 100),
\* add_uint("addr", 16, HEX), the call close(200) leaves the output of the
\* trace equal to the four packets clock snapshot, track descriptor (uuid 1,
\* "bus"), slice-begin (100, track 1, "RD", annotation addr[hex] = 16, no
\* flows), slice-end (200, track 1, no flows); and closing the stream and
\* closing the trace after that leave it so.
C19_ScenarioOutput ==
    [][/\ (ScenarioBeforeClose /\ DoTransactionClose(1, 200)) =>
              traces'[1].out = ScenarioOutput
       /\ (/\ calls = 4 /\ last.op = "txn_close" /\ Out(1) = ScenarioOutput
           /\ DoStreamClose(1)) =>
              /\ last'.res = "ok"
              /\ ~streams'[1].is_open
              /\ traces'[1].out = ScenarioOutput
       /\ (/\ calls = 5 /\ last.op = "stream_close" /\ Out(1) = ScenarioOutput
           /\ DoTraceClose(1)) =>
              /\ last'.res = "ok"
              /\ traces'[1].file = "none"
              /\ traces'[1].out = ScenarioOutput]_vars

\* The scenario has been run to its end: six calls, the last one Trace.close
\* after Stream.close, and the closed trace holds the four packets.
C19_Witness ==
    /\ calls = 6
    /\ last = [op |-> "trace_close", pre_open |-> TRUE, res |-> "ok"]
    /\ traces[1].file = "none"
    /\ Len(streams) = 1 /\ ~streams[1].is_open
    /\ Len(txns) = 1 /\ txns[1].start_time = 100 /\ txns[1].end_time = 200
    /\ Len(txns[1].attributes) = 1 /\ txns[1].flow_ids = <<>>
    /\ Out(1) = ScenarioOutput

\* C20: no step takes a CLOSED stream or a CLOSED transaction back to OPEN, and
\* in every state every transaction of a CLOSED stream is CLOSED.
C20_ClosedStaysClosed ==
    /\ [](\A s \in 1..Len(streams) :
            ~streams[s].is_open =>
                /\ \A i \in 1..Len(streams[s].transactions) :
                      ~txns[streams[s].transactions[i]].is_open
                /\ \A x \in 1..Len(txns) : txns[x].stream = s => ~txns[x].is_open)
    /\ [][/\ \A s \in 1..Len(streams) : ~streams[s].is_open => ~streams'[s].is_open
          /\ \A x \in 1..Len(txns) : ~txns[x].is_open => ~txns'[x].is_open]_vars

\* close has just been called again on a closed transaction of a stream that
\* was closed with two transactions, while the trace is still open.
C20_Witness ==
    /\ last = [op |-> "txn_close", pre_open |-> FALSE, res |-> "ok"]
    /\ \E s \in 1..Len(streams) :
          /\ ~streams[s].is_open
          /\ Len(streams[s].transactions) >= 2
          /\ traces[streams[s].trace].file = "open"

\* C21: the parent and the track UUID of a transaction and the track UUID of a
\* stream are fixed at creation: no step changes them for an entity that
\* exists before the step.
C21_ParentAndTrackAreFixed ==
    [][/\ \A x \in 1..Len(txns) :
             /\ x \in 1..Len(txns')
             /\ txns'[x].parent = txns[x].parent
             /\ txns'[x].track_uuid = txns[x].track_uuid
       /\ \A s \in 1..Len(streams) :
             /\ s \in 1..Len(streams')
             /\ streams'[s].track_uuid = streams[s].track_uuid]_vars

\* A child transaction on its own track was linked and then closed by the
\* close of its stream.
C21_Witness ==
    /\ last = [op |-> "stream_close", pre_open |-> TRUE, res |-> "ok"]
    /\ \E x \in 1..Len(txns) :
          /\ txns[x].parent # 0
          /\ ~txns[x].is_open
          /\ txns[x].flow_ids # <<>>
          /\ txns[x].track_uuid # streams[txns[x].stream].track_uuid

\* The step is a call of a method of trace t, of one of its streams or of one
\* of its transactions.
CallOn(t) ==
    \/ \E name \in StreamNames : DoCreateStream(t, name)
    \/ DoTraceClose(t)
    \/ \E s \in 1..Len(streams) :
          /\ streams[s].trace = t
          /\ \/ DoStreamClose(s)
             \/ \E name \in TxnNames, start_time \in Times, type_name \in TypeNames,
                   parent \in Foreign..Len(txns) :
                   DoBeginTransaction(s, name, start_time, type_name, parent)
    \/ \E x \in 1..Len(txns) :
          /\ TraceOf(x) = t
          /\ \/ \E end_time \in Times : DoTransactionClose(x, end_time)
             \/ \E name \in AttrNames, value \in AttrValues :
                   DoAddUint(x, name, value, RadixHEX)
             \/ \E target \in 1..Len(txns) : DoAddLink(x, target)

\* The step leaves every trace other than t, its streams and its transactions
\* as they were.
OthersUntouched(t) ==
    /\ \A u \in Traces \ {t} : traces'[u] = traces[u]
    /\ \A s \in 1..Len(streams) : streams[s].trace # t => streams'[s] = streams[s]
    /\ \A x \in 1..Len(txns) : TraceOf(x) # t => txns'[x] = txns[x]

\* Every track UUID and flow id in the output of a trace, and every flow id
\* held by one of its transactions, is below the trace's own counter.
IdsAreOwn ==
    /\ \A x \in 1..Len(txns) : \A i \in 1..Len(txns[x].flow_ids) :
          txns[x].flow_ids[i] < traces[TraceOf(x)].next_flow_id
    /\ \A t \in Traces : \A i \in 1..Len(Out(t)) :
          LET p == Out(t)[i] IN
          /\ p.kind = "track_descriptor" =>
                /\ p.uuid < traces[t].next_track_uuid
                /\ p.parent_uuid < traces[t].next_track_uuid
          /\ IsSlice(p) =>
                /\ p.track_uuid < traces[t].next_track_uuid
                /\ \A j \in 1..Len(p.flow_ids) : p.flow_ids[j] < traces[t].next_flow_id

\* C22: a call on a trace, on one of its streams or on one of its transactions
\* changes no counter, entity or output of another trace, and every track UUID
\* and flow id of a trace's entities and output was handed out by that trace's
\* own counters.
C22_TracesAreIsolated ==
    /\ []IdsAreOwn
    /\ [][\A t \in Traces : CallOn(t) => OthersUntouched(t)]_vars

\* The number of packets of kind k in the output of trace t.
PacketCount(t, k) ==
    Cardinality({i \in 1..Len(Out(t)) : Out(t)[i].kind = k})

\* C23: whatever write fails, the output holds no packet cut short, and a
\* transaction is never left CLOSED with its slice-begin written and its
\* slice-end missing: every slice-begin of the output has its slice-end.
C23_EmissionIsAllOrNothing ==
    \A t \in Traces :
        /\ PacketCount(t, "torn") = 0
        /\ PacketCount(t, "slice_begin") = PacketCount(t, "slice_end")

\* The bytes the step has appended to the output of the writer.
Written == SubSeq(writer'.output, Len(writer.output) + 1, Len(writer'.output))

\* The non-negative int whose 7-bit groups, from the least significant on, are
\* the low seven bits of the bytes.
DecodeVarint(bytes) ==
    [neg |-> FALSE,
     bits |-> [i \in Places |->
                 LET k == ((i - 1) \div 7) + 1
                     j == (i - 1) % 7
                 IN IF k <= Len(bytes) THEN ((bytes[k] % 128) \div (2 ^ j)) % 2 ELSE 0]]

\* C24: write_varint of a value v of the u64 range appends to the output the
\* 7-bit groups of v from the least significant on, one per byte, with bit 8
\* set on every byte but the last; decoding these bytes gives v, and for
\* v < 128 they are the single byte v.
C24_VarintRoundTrip ==
    [][(last'.op = "write_varint" /\ ~last'.value.neg) =>
         LET v == last'.value IN
            /\ SubSeq(writer'.output, 1, Len(writer.output)) = writer.output
            /\ Len(Written) >= 1
            /\ \A k \in 1..Len(Written) :
                  /\ Written[k] \in 0..255
                  /\ Written[k] % 128 = Low7(ShiftRight(v, 7 * (k - 1)))
                  /\ (Written[k] >= 128) = (k < Len(Written))
            /\ DecodeVarint(Written) = v
            /\ ~AtLeast128(v) => Written = <<Low7(v)>>]_vars

\* 2^64 - 1 has just been written after another value: ten bytes, nine of
\* them 255 and the last one 1.
C24_Witness ==
    /\ last.op = "write_varint"
    /\ calls = 2
    /\ LET n == Len(writer.output) IN
       /\ n >= 11
       /\ \A k \in (n - 9)..(n - 1) : writer.output[k] = 255
       /\ writer.output[n] = 1
       /\ writer.output[n - 10] < 128

\* (u >> 1) ^ -(u & 1): the inverse of the zig-zag transform.
UnZigZag(u) ==
    Xor(ShiftRight(u, 1), IF u.bits[1] = 1 THEN NegPow(0) ELSE FromNat(0))

\* The zig-zag transform maps different values of Int64Inputs to different
\* values.
ZigZagInjective ==
    \A v \in Int64Inputs, w \in Int64Inputs : ZigZag(v) = ZigZag(w) => v = w

\* C25: write_int64_field of a value v of the i64 range, its minimum included,
\* writes the tag and then the varint of (v << 1) ^ (v >> 63), which lies in
\* 0 .. 2^64 - 1; the transform is injective, and decoding the varint and
\* undoing the transform gives v.
C25_ZigZagRoundTrip ==
    [][last'.op = "write_int64_field" =>
            LET v == last'.value
                tag == WriteTag(<<>>, last'.field_number, 0)
                rest == SubSeq(Written, Len(tag) + 1, Len(Written))
            IN /\ SubSeq(writer'.output, 1, Len(writer.output)) = writer.output
               /\ SubSeq(Written, 1, Len(tag)) = tag
               /\ ~ZigZag(v).neg
               /\ \A i \in Places : i > 64 => ZigZag(v).bits[i] = 0
               /\ Len(rest) >= 1
               /\ \A k \in 1..Len(rest) : (rest[k] >= 128) = (k < Len(rest))
               /\ DecodeVarint(rest) = ZigZag(v)
               /\ UnZigZag(DecodeVarint(rest)) = v
               /\ ZigZagInjective]_vars

\* The minimum of the i64 range has just been written after another field:
\* the tag byte 8 and the ten bytes of 2^64 - 1.
C25_Witness ==
    /\ last.op = "write_int64_field"
    /\ calls = 2
    /\ LET n == Len(writer.output) IN
       /\ n >= 13
       /\ writer.output[n - 10] = 8
       /\ \A k \in (n - 9)..(n - 1) : writer.output[k] = 255
       /\ writer.output[n] = 1

\* C26: write_varint of a negative value raises and writes no byte.
C26_NegativeVarintRaises ==
    [][(last'.op = "write_varint" /\ last'.value.neg) =>
          /\ last'.res = "raised"
          /\ writer'.output = writer.output]_vars

\* ---- attributes of every kind (SpecBits) ---------------------------------
\* The attribute a step has appended to transaction x.
NewAttribute(x) == txns'[x].attributes[Len(txns'[x].attributes)]

\* Digit k of the bytes taken in reverse storage order, each as 8 binary digits.
ReversedExpansionDigit(bits, k) ==
    HexDigit((bits[Len(bits) - ((k - 1) \div 8)] \div 2 ^ (7 - ((k - 1) % 8))) % 2)

\* The suffix the interface gives each radix.
SuffixOf(radix) ==
    IF radix = RadixBIN THEN "[bin]"
    ELSE IF radix = RadixOCT THEN "[oct]"
    ELSE IF radix = RadixDEC THEN "[dec]"
    ELSE IF radix = RadixHEX THEN "[hex]"
    ELSE IF radix = RadixUNSIGNED THEN "[u]"
    ELSE IF radix = RadixTIME THEN "[time]"
    ELSE ""

\* C27: add_bits with num_bits greater than 8 times the length of its byte
\* buffer raises and leaves the attributes of the transaction as they were.
C27_OversizedNumBitsRaises ==
    [][(last'.op = "add_bits" /\ last'.num_bits > 8 * Len(last'.bits)) =>
          /\ last'.res = "raised"
          /\ txns'[last'.txn].attributes = txns[last'.txn].attributes]_vars

\* C28: add_bits with BIN radix and num_bits <= 8*len(bits) stores a string of
\* exactly 2 + num_bits characters: "0b" and then the first num_bits digits of
\* the bytes taken in reverse storage order, each as 8 binary digits.
C28_BinRendering ==
    [][(/\ last'.op = "add_bits"
        /\ last'.radix = RadixBIN
        /\ last'.num_bits <= 8 * Len(last'.bits)) =>
          LET v == NewAttribute(last'.txn).value IN
          /\ last'.res = "ok"
          /\ Len(txns'[last'.txn].attributes) = Len(txns[last'.txn].attributes) + 1
          /\ Len(v) = 2 + last'.num_bits
          /\ v[1] = "0" /\ v[2] = "b"
          /\ \A k \in 1..last'.num_bits :
                v[2 + k] = ReversedExpansionDigit(last'.bits, k)]_vars

\* add_bits("addr", b"\xab\xcd", 12, BIN) has stored "0b110011011010".
C28_Witness ==
    /\ last.op = "add_bits" /\ last.res = "ok"
    /\ last.radix = RadixBIN /\ last.bits = <<171, 205>> /\ last.num_bits = 12
    /\ Len(txns) = 1 /\ Len(txns[1].attributes) = 1
    /\ txns[1].attributes[1].value =
          <<"0", "b", "1", "1", "0", "0", "1", "1", "0", "1", "1", "0", "1", "0">>

\* C29: add_bits with HEX radix stores "0x" and the lowercase hex of the bytes
\* in storage order, and with every radix other than HEX and BIN it stores the
\* same string as with HEX.
C29_OtherRadicesRenderAsHex ==
    [][(last'.op = "add_bits" /\ last'.radix # RadixBIN) =>
          LET v == NewAttribute(last'.txn).value
              bits == last'.bits IN
          /\ Len(v) = 2 + 2 * Len(bits)
          /\ v[1] = "0" /\ v[2] = "x"
          /\ \A i \in 1..Len(bits) :
                /\ v[2 * i + 1] = HexDigit(bits[i] \div 16)
                /\ v[2 * i + 2] = HexDigit(bits[i] % 16)]_vars

\* C30: add_int, add_uint and add_bits store the given name followed by the
\* suffix of the radix ("[bin]", "[oct]", "[dec]", "[hex]", "[u]", "[time]",
\* nothing for REAL and STRING); add_float, add_string and add_blob store the
\* given name; add_time(name, v) stores the attribute add_uint(name, v, TIME)
\* stores.
C30_StoredNames ==
    [][/\ last'.op = "add_bits" =>
              NewAttribute(last'.txn).name = last'.name \o SuffixOf(last'.radix)
       /\ \A x \in 1..Len(txns) :
          /\ \A name \in AttrNames, radix \in Radix :
                /\ \A value \in IntValues :
                      DoAddInt(x, name, value, radix) =>
                          /\ NewAttribute(x).name = name \o SuffixOf(radix)
                          /\ NewAttribute(x).kind = "int_value"
                /\ \A value \in AttrValues :
                      DoAddUint(x, name, value, radix) =>
                          /\ NewAttribute(x).name = name \o SuffixOf(radix)
                          /\ NewAttribute(x).kind = "uint_value"
          /\ \A name \in AttrNames :
                /\ \A value \in FloatValues :
                      DoAddFloat(x, name, value) => NewAttribute(x).name = name
                /\ \A data \in BitsInputs :
                      DoAddBlob(x, name, data) => NewAttribute(x).name = name
                /\ \A value \in AttrValues :
                      DoAddTime(x, name, value) =>
                          /\ Len(txns'[x].attributes) = Len(txns[x].attributes) + 1
                          /\ NewAttribute(x) =
                                [name |-> name \o "[time]", kind |-> "uint_value",
                                 value |-> value]
                          /\ \E W \in {AddUint(World, x, name, value, RadixTIME)} :
                                /\ txns' = W.txns
                                /\ streams' = W.streams
                                /\ traces' = W.traces
          /\ \A name \in StringAttrNames, value \in StringAttrValues :
                DoAddString(x, name, value) => NewAttribute(x).name = name]_vars

\* add_time("addr", 16) has stored the attribute addr[time] = 16.
C30_Witness ==
    /\ last.op = "add_time" /\ last.res = "ok"
    /\ Len(txns) = 1
    /\ txns[1].attributes =
          <<[name |-> "addr[time]", kind |-> "uint_value", value |-> 16]>>

\* ---- cascades -----------------------------------------------------------
\* What a slice packet tells of its transaction.
SliceKey(p) == <<p.kind, p.timestamp, p.track_uuid>>

\* The packets a step has appended to the output of trace t.
Appended(t) == SubSeq(traces'[t].out, Len(traces[t].out) + 1, Len(traces'[t].out))

\* y comes before x in creation order, streams first.
CreatedBefore(y, x) ==
    \/ txns[y].stream < txns[x].stream
    \/ txns[y].stream = txns[x].stream /\ y < x

\* The open transactions among xs are force-closed in creation order: the one
\* with k of them before it owns packets 2k+1 and 2k+2 of the segment.
CascadeOf(xs, segment) ==
    LET open == {x \in xs : txns[x].is_open} IN
    /\ Len(segment) = 2 * Cardinality(open)
    /\ \A x \in open :
          LET k == Cardinality({y \in open : CreatedBefore(y, x)}) IN
          /\ SliceKey(segment[2 * k + 1]) =
                <<"slice_begin", txns[x].start_time, txns[x].track_uuid>>
          /\ SliceKey(segment[2 * k + 2]) =
                <<"slice_end", txns[x].start_time, txns[x].track_uuid>>

\* C31: Stream.close on an open stream appends the slice pairs of its open
\* transactions in the order they were created on the stream, whatever their
\* start times; Trace.close appends the slice pairs of the open transactions of
\* its open streams ordered by stream creation first and by transaction
\* creation within a stream.
C31_CascadeFollowsCreationOrder ==
    [][/\ \A s \in 1..Len(streams) :
             (DoStreamClose(s) /\ streams[s].is_open) =>
                 CascadeOf({x \in 1..Len(txns) : txns[x].stream = s},
                           Appended(streams[s].trace))
       /\ \A t \in Traces :
             DoTraceClose(t) =>
                 CascadeOf({x \in 1..Len(txns) : TraceOf(x) = t}, Appended(t))]_vars

\* Trace.close has force-closed two transactions of two streams: the one of
\* the first stream, begun second at time 1, is written before the one of the
\* second stream, begun first at time 0.
C31_Witness ==
    /\ last.op = "trace_close" /\ last.res = "ok"
    /\ Len(streams) = 2 /\ streams[1].trace = 1 /\ streams[2].trace = 1
    /\ Len(txns) = 2 /\ txns[1].stream = 2 /\ txns[2].stream = 1
    /\ txns[1].start_time = 0 /\ txns[2].start_time = 1
    /\ Len(Out(1)) = 7
    /\ [i \in 1..4 |-> SliceKey(Out(1)[3 + i])] =
          <<<<"slice_begin", 1, 1>>, <<"slice_end", 1, 1>>,
            <<"slice_begin", 0, 2>>, <<"slice_end", 0, 2>>>>

\* The number of packets of kind k on track u with timestamp ts in the output
\* of trace t.
SliceCount(t, k, u, ts) ==
    Cardinality({i \in 1..Len(Out(t)) :
                    /\ Out(t)[i].kind = k
                    /\ Out(t)[i].track_uuid = u
                    /\ Out(t)[i].timestamp = ts})

ClosedTransactionsOf(t) == {x \in 1..Len(txns) : TraceOf(x) = t /\ ~txns[x].is_open}

SliceTracks(t) ==
    {txns[x].track_uuid : x \in 1..Len(txns)}
    \cup {Out(t)[i].track_uuid : i \in {j \in 1..Len(Out(t)) : IsSlice(Out(t)[j])}}

SliceTimes(t) ==
    {txns[x].start_time : x \in 1..Len(txns)} \cup {txns[x].end_time : x \in 1..Len(txns)}
    \cup {Out(t)[i].timestamp : i \in {j \in 1..Len(Out(t)) : IsSlice(Out(t)[j])}}

\* C32: in every state the output of a trace holds, for every track and time,
\* as many slice-begin packets as the trace has CLOSED transactions of that
\* track with that start time and as many slice-end packets as it has CLOSED
\* transactions of that track with that end time, so one pair for each CLOSED
\* transaction and none for an OPEN one; and once the file of the trace is
\* released every transaction of the trace is CLOSED.
C32_OneSlicePairPerClosedTransaction ==
    \A t \in Traces :
        /\ \A u \in SliceTracks(t), ts \in SliceTimes(t) :
              /\ SliceCount(t, "slice_begin", u, ts) =
                    Cardinality({x \in ClosedTransactionsOf(t) :
                        txns[x].track_uuid = u /\ txns[x].start_time = ts})
              /\ SliceCount(t, "slice_end", u, ts) =
                    Cardinality({x \in ClosedTransactionsOf(t) :
                        txns[x].track_uuid = u /\ txns[x].end_time = ts})
        /\ traces[t].file = "none" =>
              \A x \in 1..Len(txns) : TraceOf(x) = t => ~txns[x].is_open

\* Trace.close has returned on a trace with a transaction closed by the
\* program and one it force-closed: two slice-begins and two slice-ends.
C32_Witness ==
    /\ last.op = "trace_close" /\ last.res = "ok" /\ traces[1].file = "none"
    /\ Len(txns) = 2 /\ txns[1].end_time = 1 /\ txns[1].start_time = 0
    /\ txns[2].start_time = 1 /\ txns[2].parent = 1
    /\ Cardinality({i \in 1..Len(Out(1)) : Out(1)[i].kind = "slice_begin"}) = 2
    /\ Cardinality({i \in 1..Len(Out(1)) : Out(1)[i].kind = "slice_end"}) = 2

\* ---- flows --------------------------------------------------------------
\* The transactions that hold flow id f, and the packets of kind k of trace t
\* that carry it.
HoldersOf(f) ==
    {x \in 1..Len(txns) : \E i \in 1..Len(txns[x].flow_ids) : txns[x].flow_ids[i] = f}

CarriersOf(t, k, f) ==
    {i \in 1..Len(Out(t)) :
        /\ Out(t)[i].kind = k
        /\ \E j \in 1..Len(Out(t)[i].flow_ids) : Out(t)[i].flow_ids[j] = f}

\* C33: once the transactions of a link are closed, a flow id that is in the
\* output of the trace is in the slice-begin and in the slice-end of each of
\* them: it is carried by as many slice pairs as transactions hold it.
C33_FlowIdsReachBothEnds ==
    \A f \in 1..(traces[1].next_flow_id - 1) :
        (/\ \A x \in HoldersOf(f) : ~txns[x].is_open
         /\ CarriersOf(1, "slice_begin", f) \cup CarriersOf(1, "slice_end", f) # {}) =>
            /\ Cardinality(CarriersOf(1, "slice_begin", f)) = Cardinality(HoldersOf(f))
            /\ Cardinality(CarriersOf(1, "slice_end", f)) = Cardinality(HoldersOf(f))


\* How often flow id f stands in the flow-id list of transaction x.
Occurrences(x, f) ==
    Cardinality({i \in 1..Len(txns[x].flow_ids) : txns[x].flow_ids[i] = f})

\* C34: in every state each flow id the trace has allocated is held by exactly
\* two distinct transactions, once by each, and no flow-id list holds an id
\* twice.
C34_FlowIdHeldByTwoTransactionsOnce ==
    \A f \in 1..(traces[1].next_flow_id - 1) :
        /\ Cardinality(HoldersOf(f)) = 2
        /\ \A x \in 1..Len(txns) : Occurrences(x, f) <= 1


\* ---- the track hierarchy ------------------------------------------------
\* C35: in the output of every trace a track descriptor with a parent_uuid
\* comes after the descriptor of that parent track, and its parent_uuid is
\* smaller than its own uuid.
C35_TrackHierarchyIsWellFounded ==
    \A t \in Traces :
        \A i \in 1..Len(Out(t)) :
            (Out(t)[i].kind = "track_descriptor" /\ Out(t)[i].parent_uuid # 0) =>
                /\ \E j \in 1..(i - 1) :
                      /\ Out(t)[j].kind = "track_descriptor"
                      /\ Out(t)[j].uuid = Out(t)[i].parent_uuid
                /\ Out(t)[i].parent_uuid < Out(t)[i].uuid


\* ---- closing times ------------------------------------------------------
\* C36: close(end_time) on an OPEN transaction writes a slice-end whose
\* timestamp is not smaller than the timestamp of the slice-begin before it,
\* and leaves end_time >= start_time.
C36_SliceEndNotBeforeSliceBegin ==
    [][\A x \in 1..Len(txns), end_time \in Times :
          (DoTransactionClose(x, end_time) /\ txns[x].is_open) =>
              LET new == Appended(TraceOf(x)) IN
              /\ Len(new) = 2
              /\ new[1].kind = "slice_begin" /\ new[2].kind = "slice_end"
              /\ new[2].timestamp >= new[1].timestamp
              /\ txns'[x].end_time >= txns'[x].start_time]_vars

\* ---- failing calls ------------------------------------------------------
\* C37: a begin_transaction that raises leaves the counters and the output of
\* every trace and the transaction list of every stream as they were.
C37_FailedBeginChangesNothing ==
    [][(last'.op = "begin_transaction" /\ last'.res = "raised") =>
          /\ \A t \in Traces :
                /\ Counters(t)' = Counters(t)
                /\ traces'[t].out = traces[t].out
          /\ \A s \in 1..Len(streams) :
                streams'[s].transactions = streams[s].transactions
          /\ Len(streams') = Len(streams)]_vars

\* C38: once Trace.close has returned, no call appends to the output of the
\* trace or changes its counters or its list of streams.
C38_ClosedTraceIsFrozen ==
    [][\A t \in {1} :
          traces[t].file = "none" =>
              /\ traces'[t].out = traces[t].out
              /\ Counters(t)' = Counters(t)
              /\ traces'[t].streams = traces[t].streams]_vars


\* ---- the two models side by side ----------------------------------------
\* C39: after the same calls the Perfetto objects and the legacy objects have
\* the same counters of track, transaction and flow ids, and every stream and
\* every transaction both hold has the same track id, transaction id, flow-id
\* list and end time and answers is_open and is_closed alike.
C39_ModelsStayInStep ==
    /\ traces[1].next_track_uuid = legacy.trace.next_track_uuid
    /\ traces[1].next_transaction_id = legacy.trace.next_transaction_id
    /\ traces[1].next_flow_id = legacy.trace.next_flow_id
    /\ \A s \in 1..Len(streams) :
          s \in 1..Len(legacy.streams) =>
              /\ streams[s].track_uuid = legacy.streams[s].uuid
              /\ StreamIsOpen(World, s) = LegacyStreamIsOpen(legacy, s)
              /\ StreamIsClosed(World, s) = LegacyStreamIsClosed(legacy, s)
    /\ Len(txns) = Len(legacy.txns)
    /\ \A x \in 1..Len(txns) :
          x \in 1..Len(legacy.txns) =>
              /\ txns[x].id = legacy.txns[x].id
              /\ txns[x].flow_ids = legacy.txns[x].flow_ids
              /\ txns[x].end_time = legacy.txns[x].end_time
              /\ TransactionIsOpen(World, x) = LegacyTransactionIsOpen(legacy, x)
              /\ TransactionIsClosed(World, x) = LegacyTransactionIsClosed(legacy, x)

====
